---- MODULE Spec2Model ----
(***************************************************************************)
(* A model of the serenity command framework: the segmenter, the prefix    *)
(* resolver, the registrar and the dispatch resolver, in each of the       *)
(* implementations the repository holds:                                   *)
(*   "lib"     src/src/lib.rs (resolution written inline in dispatch)      *)
(*   "content" src/src/parse/content.rs (group / command functions)        *)
(*   "fw"      src/framework/src/lib.rs with src/framework/src/parse.rs    *)
(* together with the argument binder (src/framework/src/argument.rs), the  *)
(* parameter-list check of the command macro (src/command_attr) and the    *)
(* group iterator of src/framework/src/parse/content.rs.                   *)
(* Strings are sequences of one-character strings. An Option is a sequence *)
(* of length at most one: None is <<>> and Some(x) is <<x>>.               *)
(***************************************************************************)
EXTENDS Integers, Sequences, FiniteSets, TLC

VARIABLES
    variant,    \* which implementation of dispatch this run exercises
    prog,       \* which bot program (set of constructors and registrations) was built
    conf,       \* the Configuration built at start-up
    pc,         \* position of the dispatch: "idle", "locked", "resolved", "done"
    msg,        \* the message being dispatched
    res,        \* the outcome of resolution (or of the whole dispatch)
    answers,    \* what the checks and the hook answer during this dispatch
    log,        \* events of the current dispatch, in order
    fin,        \* the input and result of the last pure-function application
    lock,       \* the holder of the Mutex around the configuration, None when free
    tasks,      \* the concurrent dispatches: position, message and outcome of each
    reg,        \* the task that changes the configuration while the bot runs
    seg,        \* a segment iterator: its source, delimiter and the segments returned
    stack       \* the calls of Configuration::command in progress, outermost first

vars == <<variant, prog, conf, pc, msg, res, answers, log, fin, lock, tasks, reg, seg, stack>>

\* the state of the concurrent tasks
lockvars == <<lock, tasks, reg>>

----------------------------------------------------------------------------
(* Options *)

None == <<>>
Some(x) == <<x>>
IsSome(o) == o # <<>>
Unwrap(o) == o[1]

----------------------------------------------------------------------------
(* str primitives of the Rust standard library, as the sources use them *)

\* str::to_lowercase on one character (the alphabet has two cased letters)
LowerChar(c) == IF c = "P" THEN "p" ELSE IF c = "Q" THEN "q" ELSE c

to_lowercase(s) == [i \in 1..Len(s) |-> LowerChar(s[i])]

\* str::find(char): the 0-based index of the first occurrence
find(s, ch) ==
    IF \E i \in 1..Len(s) : s[i] = ch
    THEN Some((CHOOSE i \in 1..Len(s) : s[i] = ch /\ \A j \in 1..(i - 1) : s[j] # ch) - 1)
    ELSE None

\* str::split_at(index), index <= len
split_at(s, index) == <<SubSeq(s, 1, index), SubSeq(s, index + 1, Len(s))>>

\* str::starts_with(&str)
starts_with(s, p) == Len(p) <= Len(s) /\ SubSeq(s, 1, Len(p)) = p

\* the number of leading characters of s equal to ch
LeadingCount(s, ch) ==
    IF \E i \in 1..Len(s) : s[i] # ch
    THEN (CHOOSE i \in 1..Len(s) : s[i] # ch /\ \A j \in 1..(i - 1) : s[j] = ch) - 1
    ELSE Len(s)

\* str::trim_start_matches(char): every leading occurrence is removed
trim_start_matches(s, ch) == SubSeq(s, LeadingCount(s, ch) + 1, Len(s))

\* str::trim_start(): leading whitespace is removed (the alphabet's whitespace is " ")
trim_start(s) == trim_start_matches(s, " ")

\* str::find(&str): the 0-based index of the first occurrence of the pattern
find_str(s, pat) ==
    LET at == {i \in 0..(Len(s) - Len(pat)) : SubSeq(s, i + 1, i + Len(pat)) = pat}
    IN  IF at = {} THEN None ELSE Some(CHOOSE i \in at : \A j \in at : i <= j)

\* str::trim_start_matches(&str) removing one occurrence only
trim_start_matches_once(s, pat) ==
    IF pat # <<>> /\ starts_with(s, pat) THEN SubSeq(s, Len(pat) + 1, Len(s)) ELSE s

\* str::trim_start_matches(&str): the pattern is removed from the start for as
\* long as the text starts with it
RECURSIVE trim_start_matches_str(_, _)
trim_start_matches_str(s, pat) ==
    IF pat # <<>> /\ starts_with(s, pat)
    THEN trim_start_matches_str(SubSeq(s, Len(pat) + 1, Len(s)), pat)
    ELSE s

----------------------------------------------------------------------------
(* Segmenter: src/framework/src/utils/segments.rs, src/src/parse/segments.rs *)

Delimiter == " "

segment_index(src, delimiter) ==
    IF IsSome(find(src, delimiter)) THEN Unwrap(find(src, delimiter)) ELSE Len(src)

\* segment_split without the trimming of the delimiters after the segment
segment_split_untrimmed(src, delimiter) ==
    IF src = <<>>
    THEN None
    ELSE Some(split_at(src, segment_index(src, delimiter)))

segment_split(src, delimiter) ==
    IF src = <<>>
    THEN None
    ELSE LET pair == split_at(src, segment_index(src, delimiter))
         IN  Some(<<pair[1], trim_start_matches(pair[2], delimiter)>>)

\* segment_index and segment_split of src/framework/src/utils/segments.rs,
\* where the delimiter is a &str
segment_index_str(src, delimiter) ==
    IF IsSome(find_str(src, delimiter)) THEN Unwrap(find_str(src, delimiter)) ELSE Len(src)

segment_split_str(src, delimiter) ==
    IF src = <<>>
    THEN None
    ELSE LET pair == split_at(src, segment_index_str(src, delimiter))
         IN  Some(<<pair[1], trim_start_matches_str(pair[2], delimiter)>>)

Quote == "\""

quoted_segment_split(src) ==
    IF src = <<>> \/ src[1] # Quote
    THEN None
    ELSE LET inner == SubSeq(src, 2, Len(src))
         IN  IF IsSome(find(inner, Quote))
             THEN Some(<<SubSeq(inner, 1, Unwrap(find(inner, Quote))),
                         SubSeq(inner, Unwrap(find(inner, Quote)) + 2, Len(inner))>>)
             ELSE Some(<<inner, <<>> >>)

\* argument_segment_split taking no notice of quotes
argument_segment_split_plain(src, delimiter) == segment_split_str(src, delimiter)

argument_segment_split(src, delimiter) ==
    IF IsSome(quoted_segment_split(src))
    THEN Some(<<Unwrap(quoted_segment_split(src))[1],
                trim_start_matches_str(Unwrap(quoted_segment_split(src))[2], delimiter)>>)
    ELSE segment_split_str(src, delimiter)

\* Segments::next: Some(<<segment, new source>>), the segment case-folded on demand
\* (below: Segments::next folding the case of the whole buffer, and
\* Segments::next returning every segment as written)
Segments_next_folding(src, case_insensitive) ==
    LET sp == segment_split(IF case_insensitive THEN to_lowercase(src) ELSE src, Delimiter)
    IN  IF sp = None THEN None ELSE Some(<<sp[1][1], sp[1][2]>>)

Segments_next_verbatim(src, case_insensitive) ==
    LET sp == segment_split(src, Delimiter)
    IN  IF sp = None THEN None ELSE Some(<<sp[1][1], sp[1][2]>>)

Segments_next(src, case_insensitive) ==
    LET sp == segment_split(src, Delimiter)
    IN  IF sp = None
        THEN None
        ELSE Some(<<IF case_insensitive THEN to_lowercase(sp[1][1]) ELSE sp[1][1], sp[1][2]>>)

\* Segments::current: the segment next() would return, nothing consumed
Segments_current(src, case_insensitive) ==
    LET nx == Segments_next(src, case_insensitive)
    IN  IF nx = None THEN None ELSE Some(nx[1][1])

----------------------------------------------------------------------------
(* Prefix resolver *)

\* parse::prefix::mention
mention(m, id) ==
    IF ~starts_with(m, <<"<", "@">>)
    THEN None
    ELSE LET rest0 == trim_start_matches(SubSeq(m, 3, Len(m)), "!")
             index == IF IsSome(find(rest0, ">")) THEN Unwrap(find(rest0, ">")) ELSE 0
             ment  == SubSeq(rest0, 1, index)
         IN  IF ment = id
             THEN LET pair == split_at(rest0, index + 1)
                  IN  Some(<<pair[1], trim_start(pair[2])>>)
             ELSE None

\* a static prefix after which leading whitespace is dropped, as after a mention
static_prefix_trimming(m, prefixes) ==
    IF \E i \in 1..Len(prefixes) : starts_with(m, prefixes[i])
    THEN LET i == CHOOSE k \in 1..Len(prefixes) :
                      starts_with(m, prefixes[k]) /\ \A j \in 1..(k - 1) : ~starts_with(m, prefixes[j])
         IN  Some(<<split_at(m, Len(prefixes[i]))[1], trim_start(split_at(m, Len(prefixes[i]))[2])>>)
    ELSE None

\* parse::prefix::static_prefix: the first listed prefix the message starts with
static_prefix(m, prefixes) ==
    IF \E i \in 1..Len(prefixes) : starts_with(m, prefixes[i])
    THEN LET i == CHOOSE k \in 1..Len(prefixes) :
                      starts_with(m, prefixes[k]) /\ \A j \in 1..(k - 1) : ~starts_with(m, prefixes[j])
         IN  Some(split_at(m, Len(prefixes[i])))
    ELSE None

\* parse::prefix::dynamic_prefix. hook is what the configured hook returns for
\* this message (an Option<usize>); split_at panics on an index past the end.
\* The result is <<kind, prefix, content>>, kind "some", "none" or "panic".
NoPrefix == <<"none", <<>>, <<>>>>
SomePrefix(pair) == <<"some", pair[1], pair[2]>>

dynamic_prefix(c, m, hook) ==
    IF c.dynamic_prefix
    THEN IF hook = None
         THEN NoPrefix
         ELSE IF Unwrap(hook) <= Len(m)
              THEN SomePrefix(split_at(m, Unwrap(hook)))
              ELSE <<"panic", <<>>, <<>>>>
    ELSE NoPrefix

\* The stages a prefix resolution went through, in order, are returned with
\* its result: [r |-> <<kind, prefix, content>>, stages |-> <<...>>].
\* "dm", "mention" and "static" are the tests evaluated, "hook" is one
\* invocation of the dynamic-prefix hook.

\* src/framework/src/parse/prefix.rs content (same text in src/framework/src/parse.rs)
content_fw(c, m, hook) ==
    IF m.private /\ c.no_dm_prefix
    THEN [r |-> SomePrefix(<<<<>>, m.content>>), stages |-> <<"dm">>]
    ELSE LET st1 == IF IsSome(c.on_mention) THEN <<"dm", "mention">> ELSE <<"dm">>
             mt  == IF IsSome(c.on_mention) THEN mention(m.content, Unwrap(c.on_mention)) ELSE None
         IN  IF IsSome(mt)
             THEN [r |-> SomePrefix(Unwrap(mt)), stages |-> st1]
             ELSE LET sp == static_prefix(m.content, c.prefixes)
                  IN  IF IsSome(sp)
                      THEN [r |-> SomePrefix(Unwrap(sp)), stages |-> Append(st1, "static")]
                      ELSE [r |-> dynamic_prefix(c, m.content, hook),
                            stages |-> IF c.dynamic_prefix
                                       THEN st1 \o <<"static", "hook">>
                                       ELSE Append(st1, "static")]

\* src/src/parse/prefix.rs prefix
prefix_src(c, m, hook) ==
    LET st1 == IF IsSome(c.on_mention) THEN <<"dm", "mention">> ELSE <<"dm">>
        mt  == IF IsSome(c.on_mention) THEN mention(m.content, Unwrap(c.on_mention)) ELSE None
    IN  IF IsSome(mt)
        THEN [r |-> SomePrefix(Unwrap(mt)), stages |-> st1]
        ELSE LET st2 == IF c.dynamic_prefix THEN Append(st1, "hook") ELSE st1
                 dp  == dynamic_prefix(c, m.content, hook)
             IN  IF dp[1] # "none"
                 THEN [r |-> dp, stages |-> st2]
                 ELSE LET sp == static_prefix(m.content, c.prefixes)
                      IN  [r |-> IF IsSome(sp) THEN SomePrefix(Unwrap(sp)) ELSE NoPrefix,
                           stages |-> Append(st2, "static")]

\* src/src/parse/prefix.rs content
content_src(c, m, hook) ==
    IF m.private /\ c.no_dm_prefix
    THEN [r |-> SomePrefix(<<<<>>, m.content>>), stages |-> <<"dm">>]
    ELSE prefix_src(c, m, hook)

----------------------------------------------------------------------------
(* Identifier registry: src/src/utils.rs (IdMap) *)

\* HashMap::insert
MapInsert(f, k, v) == [x \in (DOMAIN f) \cup {k} |-> IF x = k THEN v ELSE f[x]]

IdMap_new == [name_to_id |-> <<>>, aggregrates |-> <<>>]

\* an insertion that leaves a name that is bound already as it is
IdMap_insert_name_keeping(map, name, id) ==
    IF name \in DOMAIN map.name_to_id THEN map ELSE [map EXCEPT !.name_to_id = MapInsert(@, name, id)]

IdMap_insert_name(map, name, id) == [map EXCEPT !.name_to_id = MapInsert(@, name, id)]

\* what insert_name returns: the identifier the name was bound to before
IdMap_insert_name_returned(map, name, id) ==
    IF name \in DOMAIN map.name_to_id THEN Some(map.name_to_id[name]) ELSE None

IdMap_insert(map, id, aggr) == [map EXCEPT !.aggregrates = MapInsert(@, id, aggr)]

IdMap_get_id(map, name) ==
    IF name \in DOMAIN map.name_to_id THEN Some(map.name_to_id[name]) ELSE None

IdMap_get(map, id) ==
    IF id \in DOMAIN map.aggregrates THEN Some(map.aggregrates[id]) ELSE None

IdMap_get_by_name(map, name) ==
    IF IsSome(IdMap_get_id(map, name)) THEN IdMap_get(map, Unwrap(IdMap_get_id(map, name))) ELSE None

IdMap_contains_id(map, id) == id \in DOMAIN map.aggregrates

----------------------------------------------------------------------------
(* The bot programs: the constructors a host declares and the registration *)
(* calls it makes at start-up. Identifiers stand for constructor addresses. *)

Variants == {"lib", "content", "fw"}

\* the group-based implementations (src/src) and the group-less one (src/framework/src)
HasGroups(v) == v \in {"lib", "content"}

CommandIds == {"ping", "sub", "deflt"}
GroupIds == {"grp", "subgrp", "top"}

\* the programs of the group-less implementation
FwPrograms == {"F", "G", "H"}

\* what each command constructor passes to its builder, in call order; in the
\* programs of the group-less implementation deflt is a subcommand of ping
\* (and no root-level command in program "F"). In program "J" deflt also
\* takes the name p of ping; in program "K" ping is a subcommand of its own
\* subcommand sub; in program "L" sub is its own subcommand.
CommandDecl(pr, id) ==
    CASE id = "ping"  -> [names |-> << <<"p">>, <<"Q">> >>,
                          subcommands |-> IF pr \in FwPrograms THEN {"sub", "deflt"} ELSE {"sub"},
                          checks |-> <<"cp1", "cp2">>]
      [] id = "sub"   -> [names |-> << <<"s">> >>,
                          subcommands |-> CASE pr = "K" -> {"ping"}
                                            [] pr = "L" -> {"sub"}
                                            [] OTHER -> {},
                          checks |-> <<"cs">>]
      [] id = "deflt" -> [names |-> IF pr = "J" THEN << <<"d">>, <<"p">> >> ELSE << <<"d">> >>,
                          subcommands |-> {"sub"},
                          checks |-> <<"cd">>]

\* what each group constructor passes to its builder; in program "A" the
\* default command of grp is also one of its members
GroupDecl(pr, id) ==
    CASE id = "grp"    -> [prefixes |-> << <<"g">> >>,
                           commands |-> IF pr = "A" THEN {"ping", "deflt"} ELSE {"ping"},
                           subgroups |-> {"subgrp"}, default_command |-> Some("deflt"),
                           checks |-> <<"kg1", "kg2">>]
      [] id = "subgrp" -> [prefixes |-> << <<"h">> >>, commands |-> {"ping"},
                           subgroups |-> {}, default_command |-> None,
                           checks |-> <<"kh">>]
      [] id = "top"    -> [prefixes |-> <<>>, commands |-> {"ping", "deflt"},
                           subgroups |-> {}, default_command |-> None,
                           checks |-> <<>>]

\* the registration calls of each program, in order
Registrations(v, pr) ==
    IF HasGroups(v)
    THEN CASE pr = "A" -> << <<"group", "grp">>, <<"group", "top">> >>
           [] pr = "B" -> << <<"group", "grp">>, <<"group", "top">>, <<"command", "deflt">> >>
           [] pr = "C" -> << <<"group", "top">>, <<"group", "grp">> >>
           [] pr = "D" -> << <<"command", "ping">>, <<"command", "sub">> >>
    ELSE CASE pr = "F" -> << <<"command", "ping">> >>
           [] pr = "G" -> << <<"command", "ping">>, <<"command", "deflt">> >>
           [] pr = "H" -> << <<"command", "deflt">>, <<"command", "ping">> >>

----------------------------------------------------------------------------
(* Entity model *)

\* CommandBuilder: src/src/command.rs keeps every check (a Vec), in call order
CommandBuilder_build_src(pr, id) ==
    [id |-> id, names |-> CommandDecl(pr, id).names,
     subcommands |-> CommandDecl(pr, id).subcommands, checks |-> CommandDecl(pr, id).checks]

\* CommandBuilder: src/framework/src/command.rs keeps one check (an Option), the last set
CommandBuilder_build_fw(pr, id) ==
    [id |-> id, names |-> CommandDecl(pr, id).names,
     subcommands |-> CommandDecl(pr, id).subcommands,
     checks |-> LET cs == CommandDecl(pr, id).checks
                IN  IF cs = <<>> THEN None ELSE Some(cs[Len(cs)])]

\* GroupBuilder: src/src/group.rs
GroupBuilder_build(pr, id) ==
    [id |-> id, prefixes |-> GroupDecl(pr, id).prefixes,
     commands |-> GroupDecl(pr, id).commands, subgroups |-> GroupDecl(pr, id).subgroups,
     default_command |-> GroupDecl(pr, id).default_command,
     checks |-> GroupDecl(pr, id).checks]

----------------------------------------------------------------------------
(* Configuration / registrar *)

NoBlocked == [users |-> {}, channels |-> {}, guilds |-> {}, commands |-> {}, groups |-> {}]

Configuration_new ==
    [prefixes |-> <<>>, dynamic_prefix |-> FALSE, case_insensitive |-> FALSE,
     no_dm_prefix |-> FALSE, on_mention |-> None,
     groups |-> IdMap_new, top_level_groups |-> <<>>,
     commands |-> IdMap_new, root_level_commands |-> {},
     blocked_entities |-> NoBlocked,
     constructed |-> <<>>]

\* the loop over the names of an entity: each name, case-folded under the
\* case-insensitive policy, is bound to the identifier
\* the loop over the names stopping after the first name
InsertNames_first(map, names, id, case_insensitive) ==
    IF names = <<>>
    THEN map
    ELSE IdMap_insert_name(map,
             IF case_insensitive THEN to_lowercase(Head(names)) ELSE Head(names), id)

RECURSIVE InsertNames(_, _, _, _)
InsertNames(map, names, id, case_insensitive) ==
    IF names = <<>>
    THEN map
    ELSE InsertNames(
             IdMap_insert_name(map,
                 IF case_insensitive THEN to_lowercase(Head(names)) ELSE Head(names), id),
             Tail(names), id, case_insensitive)

\* Configuration::command of src/src/configuration.rs: no guard, the
\* constructor runs on every call; subcommands are registered before the
\* command is stored
RECURSIVE Configuration_command_src(_, _, _), RegisterSubcommands_src(_, _, _)
Configuration_command_src(c, pr, id) ==
    LET command == CommandBuilder_build_src(pr, id)
        c1 == [c EXCEPT !.commands = InsertNames(@, command.names, id, c.case_insensitive),
                        !.constructed = Append(@, id)]
        c2 == RegisterSubcommands_src(c1, pr, command.subcommands)
    IN  [c2 EXCEPT !.commands = IdMap_insert(@, id, command)]

RegisterSubcommands_src(c, pr, ids) ==
    IF ids = {}
    THEN c
    ELSE LET id == CHOOSE x \in ids : TRUE
         IN  RegisterSubcommands_src(Configuration_command_src(c, pr, id), pr, ids \ {id})

\* Configuration::_group of src/src/configuration.rs
RECURSIVE Configuration__group(_, _, _), RegisterSubgroups(_, _, _)
Configuration__group(c, pr, group) ==
    LET c1 == [c EXCEPT !.groups = InsertNames(@, group.prefixes, group.id, c.case_insensitive),
                        !.constructed = Append(@, group.id)]
        c2 == RegisterSubgroups(c1, pr, group.subgroups)
        c3 == RegisterSubcommands_src(c2, pr, group.commands)
    IN  [c3 EXCEPT !.groups = IdMap_insert(@, group.id, group)]

RegisterSubgroups(c, pr, ids) ==
    IF ids = {}
    THEN c
    ELSE LET id == CHOOSE x \in ids : TRUE
         IN  RegisterSubgroups(Configuration__group(c, pr, GroupBuilder_build(pr, id)), pr, ids \ {id})

\* Configuration::group of src/src/configuration.rs: a prefixless group is
\* pushed to top_level_groups and nothing else is done with it
Configuration_group(c, pr, id) ==
    LET group == GroupBuilder_build(pr, id)
    IN  IF group.prefixes = <<>>
        THEN [c EXCEPT !.top_level_groups = Append(@, group),
                       !.constructed = Append(@, group.id)]
        ELSE Configuration__group(c, pr, group)

\* the guard of Configuration::_subcommand
subcommand_exists_constructed(c, id) == \E i \in DOMAIN c.constructed : c.constructed[i] = id

subcommand_exists(c, id) == IdMap_contains_id(c.commands, id)

\* Configuration::_command and ::_subcommand of src/framework/src/configuration.rs
RECURSIVE Configuration__command_fw(_, _, _), RegisterSubcommands_fw(_, _, _)
Configuration__command_fw(c, pr, id) ==
    LET command == CommandBuilder_build_fw(pr, id)
        c1 == [c EXCEPT !.commands = InsertNames(@, command.names, id, c.case_insensitive),
                        !.constructed = Append(@, id)]
        c2 == RegisterSubcommands_fw(c1, pr, command.subcommands)
    IN  [c2 EXCEPT !.commands = IdMap_insert(@, id, command)]

RegisterSubcommands_fw(c, pr, ids) ==
    IF ids = {}
    THEN c
    ELSE LET id == CHOOSE x \in ids : TRUE
         IN  RegisterSubcommands_fw(
                 IF subcommand_exists(c, id) THEN c ELSE Configuration__command_fw(c, pr, id),
                 pr, ids \ {id})

\* Configuration::command of src/framework/src/configuration.rs
Configuration_command_fw(c, pr, id) ==
    IF id \in c.root_level_commands
    THEN c
    ELSE Configuration__command_fw([c EXCEPT !.root_level_commands = @ \cup {id}], pr, id)

\* the start-up of a program: its registration calls applied in order
RECURSIVE Register(_, _, _, _)
Register(c, v, pr, calls) ==
    IF calls = <<>>
    THEN c
    ELSE LET call == Head(calls)
             c1 == IF call[1] = "group"
                   THEN Configuration_group(c, pr, call[2])
                   ELSE IF HasGroups(v)
                        THEN Configuration_command_src(c, pr, call[2])
                        ELSE Configuration_command_fw(c, pr, call[2])
         IN  Register(c1, v, pr, Tail(calls))

----------------------------------------------------------------------------
(* Outcomes and events of one dispatch *)

\* A DispatchError: its variant, up to two identifiers (or a check's name and
\* Reason) and, for InvalidCommandName and PrefixOnly, its text.
DispatchError(tag, a, b, text) == [tag |-> tag, a |-> a, b |-> b, text |-> text]
NoError == DispatchError("", "", "", <<>>)

\* What resolution hands back. groups and chain are the groups matched and the
\* commands accepted, in order (the last of chain is the resolved command).
Err(e, st) ==
    [kind |-> "err", err |-> e, groups |-> st.groups, chain |-> st.chain,
     prefix |-> <<>>, args |-> <<>>, log |-> st.log]
Panic(st) ==
    [kind |-> "panic", err |-> NoError, groups |-> st.groups, chain |-> st.chain,
     prefix |-> <<>>, args |-> <<>>, log |-> st.log]
Ok(prefix, args, st) ==
    [kind |-> "ok", err |-> NoError, groups |-> st.groups, chain |-> st.chain,
     prefix |-> prefix, args |-> args, log |-> st.log]

\* The walk's bookkeeping: the events so far and the entities accepted so far.
Start == [log |-> <<>>, groups |-> <<>>, chain |-> <<>>]
Event(st, kind, a, b, c) == [st EXCEPT !.log = Append(@, <<kind, a, b, c>>)]
AcceptGroup(st, id) == [st EXCEPT !.groups = Append(@, id)]
AcceptCommand(st, id) == [st EXCEPT !.chain = Append(@, id)]

Last(s) == s[Len(s)]

\* the number of check evaluations among the events
NumChecks(lg) == Cardinality({i \in 1..Len(lg) : lg[i][1] = "check"})

\* The loop `for check in checks { (check.function)(ctx, msg).await ... }`.
\* env.passing is the number of check evaluations of this dispatch that
\* succeed before one fails; env.reason is the Reason the failing one gives.
\* The result is [ok, st, name]: name is the failing check's name.
\* the loop over the checks walking the list from its end
RECURSIVE RunChecks_reversed(_, _, _, _)
RunChecks_reversed(checks, target, st, env) ==
    IF checks = <<>>
    THEN [ok |-> TRUE, st |-> st, name |-> ""]
    ELSE IF NumChecks(st.log) < env.passing
         THEN RunChecks_reversed(SubSeq(checks, 1, Len(checks) - 1), target,
                  Event(st, "check", Last(checks), target, "pass"), env)
         ELSE [ok |-> FALSE, st |-> Event(st, "check", Last(checks), target, "fail"),
               name |-> Last(checks)]

RECURSIVE RunChecks(_, _, _, _)
RunChecks(checks, target, st, env) ==
    IF checks = <<>>
    THEN [ok |-> TRUE, st |-> st, name |-> ""]
    ELSE IF NumChecks(st.log) < env.passing
         THEN RunChecks(Tail(checks), target, Event(st, "check", Head(checks), target, "pass"), env)
         ELSE [ok |-> FALSE, st |-> Event(st, "check", Head(checks), target, "fail"),
               name |-> Head(checks)]

\* Error::Dispatch(DispatchError::CheckFailed(check.name.clone(), reason))
CheckFailed(rc, env) == Err(DispatchError("CheckFailed", rc.name, env.reason, <<>>), rc.st)

\* the events of prefix resolution: one "hook" event per invocation of the hook
PrefixEvents(st, stages) ==
    IF \E i \in 1..Len(stages) : stages[i] = "hook" THEN Event(st, "hook", "", "", "") ELSE st

----------------------------------------------------------------------------
(* Dispatch resolver of src/framework/src: parse.rs and lib.rs *)

\* an iterator that takes any registered command as the first one
CommandIterator_next_fw_unrooted(c, src, command) ==
    LET checkpoint == src
        nx == Segments_next(src, c.case_insensitive)
    IN  IF nx = None
        THEN [tag |-> "none", cmd |-> None, err |-> NoError, src |-> src, command |-> command]
        ELSE LET name == nx[1][1]
                 cmd  == IdMap_get_by_name(c.commands, name)
             IN  IF cmd = None
                 THEN IF command = None
                      THEN [tag |-> "err", cmd |-> None,
                            err |-> DispatchError("InvalidCommandName", "", "", name),
                            src |-> checkpoint, command |-> command]
                      ELSE [tag |-> "none", cmd |-> None, err |-> NoError,
                            src |-> checkpoint, command |-> command]
                 ELSE IF command # None /\ Unwrap(cmd).id \notin Unwrap(command).subcommands
                      THEN [tag |-> "none", cmd |-> None, err |-> NoError,
                            src |-> checkpoint, command |-> command]
                      ELSE [tag |-> "ok", cmd |-> cmd, err |-> NoError,
                            src |-> nx[1][2], command |-> cmd]

\* CommandIterator::next of src/framework/src/parse.rs. command is the
\* iterator's field (an Option). The result is the item ("none", "ok" with
\* cmd, "err" with err), the source of the segments afterwards and the field.
CommandIterator_next_fw(c, src, command) ==
    LET checkpoint == src
        nx == Segments_next(src, c.case_insensitive)
    IN  IF nx = None
        THEN [tag |-> "none", cmd |-> None, err |-> NoError, src |-> src, command |-> command]
        ELSE LET name == nx[1][1]
                 cmd  == IdMap_get_by_name(c.commands, name)
             IN  IF cmd = None
                 THEN IF command = None
                      THEN [tag |-> "err", cmd |-> None,
                            err |-> DispatchError("InvalidCommandName", "", "", name),
                            src |-> checkpoint, command |-> command]
                      ELSE [tag |-> "none", cmd |-> None, err |-> NoError,
                            src |-> checkpoint, command |-> command]
                 ELSE IF command = None /\ Unwrap(cmd).id \notin c.root_level_commands
                      THEN [tag |-> "none", cmd |-> None, err |-> NoError,
                            src |-> checkpoint, command |-> command]
                      ELSE IF command # None /\ Unwrap(cmd).id \notin Unwrap(command).subcommands
                           THEN [tag |-> "none", cmd |-> None, err |-> NoError,
                                 src |-> checkpoint, command |-> command]
                           ELSE [tag |-> "ok", cmd |-> cmd, err |-> NoError,
                                 src |-> nx[1][2], command |-> cmd]

\* command_check of src/framework/src/lib.rs: the command's one optional check
command_check(command, st, env) == RunChecks(command.checks, command.id, st, env)

\* the loop `for cmd in parse::commands(..)` of dispatch_with_hook and what follows it
RECURSIVE CommandLoop_fw(_, _, _, _, _, _)
CommandLoop_fw(c, env, prefix, src, command, st) ==
    LET it == CommandIterator_next_fw(c, src, command)
    IN  IF it.tag = "err"
        THEN Err(it.err, st)
        ELSE IF it.tag = "ok"
             THEN LET rc == command_check(Unwrap(it.cmd), st, env)
                  IN  IF rc.ok
                      THEN CommandLoop_fw(c, env, prefix, it.src, it.cmd,
                                          AcceptCommand(rc.st, Unwrap(it.cmd).id))
                      ELSE CheckFailed(rc, env)
             ELSE IF command = None
                  THEN Err(DispatchError("PrefixOnly", "", "", prefix), st)
                  ELSE Ok(prefix, it.src, st)

\* the resolution block of Framework::dispatch_with_hook, src/framework/src/lib.rs
Resolve_fw(c, m, env) ==
    LET pf == content_fw(c, m, env.hook)
        st == PrefixEvents(Start, pf.stages)
    IN  IF pf.r[1] = "none"
        THEN Err(DispatchError("NormalMessage", "", "", <<>>), st)
        ELSE IF pf.r[1] = "panic"
             THEN Panic(st)
             ELSE CommandLoop_fw(c, env, pf.r[2], pf.r[3], None, st)

----------------------------------------------------------------------------
(* Dispatch resolver of src/src/lib.rs (resolution inline in dispatch) *)

\* one test of a block-list, with its event
BlockTest(st, kind, id, blocked) ==
    Event(st, "blocktest", kind, id, IF blocked THEN "blocked" ELSE "clear")

\* is_blocked of src/src/lib.rs: [err, st], err.tag = "" when nothing is blocked
is_blocked(c, m, st) ==
    LET s1 == BlockTest(st, "user", m.author, m.author \in c.blocked_entities.users)
        s2 == BlockTest(s1, "channel", m.channel_id, m.channel_id \in c.blocked_entities.channels)
        s3 == IF IsSome(m.guild_id)
              THEN BlockTest(s2, "guild", Unwrap(m.guild_id),
                             Unwrap(m.guild_id) \in c.blocked_entities.guilds)
              ELSE s2
    IN  IF m.author \in c.blocked_entities.users
        THEN [err |-> DispatchError("BlockedUser", m.author, "", <<>>), st |-> s1]
        ELSE IF m.channel_id \in c.blocked_entities.channels
             THEN [err |-> DispatchError("BlockedChannel", m.channel_id, "", <<>>), st |-> s2]
             ELSE IF IsSome(m.guild_id) /\ Unwrap(m.guild_id) \in c.blocked_entities.guilds
                  THEN [err |-> DispatchError("BlockedGuild", Unwrap(m.guild_id), "", <<>>), st |-> s3]
                  ELSE [err |-> NoError, st |-> s3]

\* top_level_groups.iter().find(|g| g.commands.contains(&command.id))
FindTopLevel(c, id) ==
    LET tl == c.top_level_groups
    IN  IF \E i \in 1..Len(tl) : id \in tl[i].commands
        THEN Some(tl[CHOOSE i \in 1..Len(tl) :
                         id \in tl[i].commands /\ \A j \in 1..(i - 1) : id \notin tl[j].commands])
        ELSE None

\* lines 194-227: the walk over the segments after the initial command
RECURSIVE SubcommandWalk_lib(_, _, _, _, _, _, _)
SubcommandWalk_lib(c, env, prefix, command, args, src, st) ==
    LET nx == Segments_next(src, c.case_insensitive)
    IN  IF nx = None
        THEN Ok(prefix, args, st)
        ELSE LET id == IdMap_get_id(c.commands, nx[1][1])
                 aggr == IdMap_get_by_name(c.commands, nx[1][1])
             IN  IF aggr = None
                 THEN Ok(prefix, args, st)
                 ELSE LET s1 == BlockTest(st, "command", Unwrap(id),
                                          Unwrap(id) \in c.blocked_entities.commands)
                          rc == RunChecks(Unwrap(aggr).checks, Unwrap(aggr).id, s1, env)
                      IN  IF Unwrap(id) \in c.blocked_entities.commands
                          THEN Err(DispatchError("BlockedCommand", Unwrap(id), "", <<>>), s1)
                          ELSE IF ~rc.ok
                               THEN CheckFailed(rc, env)
                               ELSE IF Unwrap(id) \in command.subcommands
                                    THEN SubcommandWalk_lib(c, env, prefix, Unwrap(aggr), nx[1][2],
                                             nx[1][2], AcceptCommand(rc.st, Unwrap(aggr).id))
                                    ELSE Ok(prefix, args, rc.st)

\* lines 148-192: the initial command, named by `name`; src is what follows it
InitialCommand_lib(c, env, prefix, group, name, src, st) ==
    LET command == IdMap_get_by_name(c.commands, name)
    IN  IF command = None
        THEN Err(DispatchError("InvalidCommandName", "", "", name), st)
        ELSE LET rc == RunChecks(Unwrap(command).checks, Unwrap(command).id, st, env)
                 s1 == AcceptCommand(rc.st, Unwrap(command).id)
             IN  IF ~rc.ok
                 THEN CheckFailed(rc, env)
                 ELSE IF IsSome(group)
                      THEN IF Unwrap(command).id \in Unwrap(group).commands
                           THEN SubcommandWalk_lib(c, env, prefix, Unwrap(command), src, src, s1)
                           ELSE Err(DispatchError("InvalidCommand", Unwrap(group).id,
                                                  Unwrap(command).id, <<>>), rc.st)
                      ELSE IF IsSome(FindTopLevel(c, Unwrap(command).id))
                           THEN SubcommandWalk_lib(c, env, prefix, Unwrap(command), src, src, s1)
                           ELSE Panic(rc.st)

\* lines 88-143: the loop over the groups, entered with group g matched
RECURSIVE GroupWalk_lib(_, _, _, _, _, _)
GroupWalk_lib(c, env, prefix, g, src, st) ==
    LET s1 == BlockTest(st, "group", g.id, g.id \in c.blocked_entities.groups)
        rc == RunChecks(g.checks, g.id, s1, env)
        s2 == AcceptGroup(rc.st, g.id)
        nx == Segments_next(src, c.case_insensitive)
    IN  IF g.id \in c.blocked_entities.groups
        THEN Err(DispatchError("BlockedGroup", g.id, "", <<>>), s1)
        ELSE IF ~rc.ok
             THEN CheckFailed(rc, env)
             ELSE IF nx = None
                  THEN IF IsSome(g.default_command)
                       THEN IF IsSome(IdMap_get(c.commands, Unwrap(g.default_command)))
                            THEN Ok(prefix, <<>>, AcceptCommand(s2, Unwrap(g.default_command)))
                            ELSE Panic(s2)
                       ELSE Err(DispatchError("MissingContent", "", "", <<>>), s2)
                  ELSE LET id == IdMap_get_id(c.groups, nx[1][1])
                           aggr == IdMap_get_by_name(c.groups, nx[1][1])
                       IN  IF IsSome(aggr) /\ Unwrap(id) \in g.subgroups
                           THEN GroupWalk_lib(c, env, prefix, Unwrap(aggr), nx[1][2], s2)
                           ELSE InitialCommand_lib(c, env, prefix, Some(g), nx[1][1], nx[1][2], s2)

\* the resolution block of Framework::dispatch_with_hook, src/src/lib.rs
Resolve_lib(c, m, env) ==
    LET blk == is_blocked(c, m, Start)
        pf  == content_fw(c, m, env.hook)
        st  == PrefixEvents(blk.st, pf.stages)
        nx  == Segments_next(pf.r[3], c.case_insensitive)
    IN  IF blk.err.tag # ""
        THEN Err(blk.err, blk.st)
        ELSE IF pf.r[1] = "none"
             THEN Err(DispatchError("NormalMessage", "", "", <<>>), st)
             ELSE IF pf.r[1] = "panic"
                  THEN Panic(st)
                  ELSE IF nx = None
                       THEN Err(DispatchError("PrefixOnly", "", "", <<>>), st)
                       ELSE LET group == IdMap_get_by_name(c.groups, nx[1][1])
                            IN  IF IsSome(group)
                                THEN GroupWalk_lib(c, env, pf.r[2], Unwrap(group), nx[1][2], st)
                                ELSE InitialCommand_lib(c, env, pf.r[2], None, nx[1][1], nx[1][2], st)

----------------------------------------------------------------------------
(* Dispatch resolver of src/src/parse/content.rs: group and command *)

\* the callbacks `f` the dispatcher passes to group and to command: the
\* entity's checks, in registration order
GroupCallback(g, st, env) == RunChecks(g.checks, g.id, st, env)
CommandCallback(group, command, st, env) == RunChecks(command.checks, command.id, st, env)

\* parse::content::group. The result is [out, group, src, st]: out.kind is
\* "ok" when the walk returned Ok(group), and the error otherwise.
RECURSIVE group_content(_, _, _, _, _)
group_content(c, env, group, src, st) ==
    LET name == Segments_current(src, c.case_insensitive)
        g == IF IsSome(name) THEN IdMap_get_by_name(c.groups, Unwrap(name)) ELSE None
    IN  IF name = None \/ g = None
        THEN [out |-> Ok(<<>>, <<>>, st), group |-> group, src |-> src, st |-> st]
        ELSE IF IsSome(group) /\ Unwrap(g).id \notin Unwrap(group).subgroups
             THEN [out |-> Ok(<<>>, <<>>, st), group |-> group, src |-> src, st |-> st]
             ELSE LET s1 == BlockTest(st, "group", Unwrap(g).id,
                                      Unwrap(g).id \in c.blocked_entities.groups)
                      rc == GroupCallback(Unwrap(g), s1, env)
                  IN  IF Unwrap(g).id \in c.blocked_entities.groups
                      THEN [out |-> Err(DispatchError("BlockedGroup", Unwrap(g).id, "", <<>>), s1),
                            group |-> group, src |-> src, st |-> s1]
                      ELSE IF ~rc.ok
                           THEN [out |-> CheckFailed(rc, env), group |-> group, src |-> src,
                                 st |-> rc.st]
                           ELSE group_content(c, env, g,
                                    Unwrap(Segments_next(src, c.case_insensitive))[2],
                                    AcceptGroup(rc.st, Unwrap(g).id))

\* a default command taken from group grp when no group was matched
default_command_unmatched(c, group) ==
    LET g == IF IsSome(group) THEN group
             ELSE IF "grp" \in DOMAIN c.groups.aggregrates
                  THEN Some(c.groups.aggregrates["grp"]) ELSE None
    IN  IF IsSome(g) /\ IsSome(Unwrap(g).default_command)
        THEN IF IsSome(IdMap_get(c.commands, Unwrap(Unwrap(g).default_command)))
             THEN [tag |-> "some", cmd |-> IdMap_get(c.commands, Unwrap(Unwrap(g).default_command))]
             ELSE [tag |-> "missing", cmd |-> None]
        ELSE [tag |-> "none", cmd |-> None]

\* parse::content::default_command: "missing" stands for the panic of
\* conf.commands[id] on an identifier without a stored command
default_command(c, group) ==
    IF IsSome(group) /\ IsSome(Unwrap(group).default_command)
    THEN IF IsSome(IdMap_get(c.commands, Unwrap(Unwrap(group).default_command)))
         THEN [tag |-> "some", cmd |-> IdMap_get(c.commands, Unwrap(Unwrap(group).default_command))]
         ELSE [tag |-> "missing", cmd |-> None]
    ELSE [tag |-> "none", cmd |-> None]

\* the `while let` loop of command: the descent into subcommands
RECURSIVE SubcommandWalk_content(_, _, _, _, _, _, _)
SubcommandWalk_content(c, env, prefix, group, command, src, st) ==
    LET name == Segments_current(src, c.case_insensitive)
        cmd == IF IsSome(name) THEN IdMap_get_by_name(c.commands, Unwrap(name)) ELSE None
    IN  IF name = None \/ cmd = None
        THEN Ok(prefix, src, st)
        ELSE IF Unwrap(cmd).id \notin command.subcommands
             THEN Ok(prefix, src, st)
             ELSE LET s1 == BlockTest(st, "command", Unwrap(cmd).id,
                                      Unwrap(cmd).id \in c.blocked_entities.commands)
                      rc == CommandCallback(group, Unwrap(cmd), s1, env)
                  IN  IF Unwrap(cmd).id \in c.blocked_entities.commands
                      THEN Err(DispatchError("BlockedCommand", Unwrap(cmd).id, "", <<>>), s1)
                      ELSE IF ~rc.ok
                           THEN CheckFailed(rc, env)
                           ELSE SubcommandWalk_content(c, env, prefix, group, Unwrap(cmd),
                                    Unwrap(Segments_next(src, c.case_insensitive))[2],
                                    AcceptCommand(rc.st, Unwrap(cmd).id))

\* parse::content::command from the block-list test of the initial command on:
\* command is the initial command and src the source after it
AfterInitial_content(c, env, prefix, group, command, src, st) ==
    LET s1 == BlockTest(st, "command", command.id, command.id \in c.blocked_entities.commands)
        owner == IF IsSome(group)
                 THEN IF command.id \in Unwrap(group).commands THEN group ELSE None
                 ELSE FindTopLevel(c, command.id)
        rc == CommandCallback(owner, command, s1, env)
    IN  IF command.id \in c.blocked_entities.commands
        THEN Err(DispatchError("BlockedCommand", command.id, "", <<>>), s1)
        ELSE IF owner = None
             THEN Err(DispatchError("InvalidCommand",
                                    IF IsSome(group) THEN Unwrap(group).id ELSE "",
                                    command.id, <<>>), s1)
             ELSE IF ~rc.ok
                  THEN CheckFailed(rc, env)
                  ELSE SubcommandWalk_content(c, env, prefix, owner, command, src,
                                              AcceptCommand(rc.st, command.id))

\* parse::content::command
command_content(c, env, prefix, group, src, st) ==
    LET dflt == default_command(c, group)
        name == Segments_current(src, c.case_insensitive)
        cmd  == IF IsSome(name) THEN IdMap_get_by_name(c.commands, Unwrap(name)) ELSE None
    IN  IF dflt.tag = "missing"
        THEN Panic(st)
        ELSE IF name = None
             THEN IF dflt.tag = "some"
                  THEN AfterInitial_content(c, env, prefix, group, Unwrap(dflt.cmd), src, st)
                  ELSE Err(DispatchError("MissingContent", "", "", <<>>), st)
             ELSE IF cmd = None
                  THEN IF dflt.tag = "some"
                       THEN AfterInitial_content(c, env, prefix, group, Unwrap(dflt.cmd), src, st)
                       ELSE Err(DispatchError("InvalidCommandName", "", "", Unwrap(name)), st)
                  ELSE IF dflt.tag = "some" /\ Unwrap(cmd).id \in Unwrap(dflt.cmd).subcommands
                       THEN AfterInitial_content(c, env, prefix, group, Unwrap(dflt.cmd), src, st)
                       ELSE AfterInitial_content(c, env, prefix, group, Unwrap(cmd),
                                Unwrap(Segments_next(src, c.case_insensitive))[2], st)

\* the dispatcher around group and command: block-lists of the message, the
\* prefix, the two walks, and the residual text segments.source()
Resolve_content(c, m, env) ==
    LET blk == is_blocked(c, m, Start)
        pf  == content_src(c, m, env.hook)
        st  == PrefixEvents(blk.st, pf.stages)
        gr  == group_content(c, env, None, pf.r[3], st)
    IN  IF blk.err.tag # ""
        THEN Err(blk.err, blk.st)
        ELSE IF pf.r[1] = "none"
             THEN Err(DispatchError("NormalMessage", "", "", <<>>), st)
             ELSE IF pf.r[1] = "panic"
                  THEN Panic(st)
                  ELSE IF pf.r[3] = <<>>
                       THEN Err(DispatchError("PrefixOnly", "", "", <<>>), st)
                       ELSE IF gr.out.kind # "ok"
                            THEN gr.out
                            ELSE command_content(c, env, pf.r[2], gr.group, gr.src, gr.st)

----------------------------------------------------------------------------
(* Inputs *)

MaxSegs == 3        \* segments after the prefix
MaxGap == 2         \* delimiters between two segments
MaxPassing == 7     \* check evaluations that may succeed in one dispatch
MaxCaseSegs == 2    \* segments after the prefix under the case-insensitive policy

StaticPrefix == <<"!">>

Tokens == {<<"p">>, <<"Q">>, <<"s">>, <<"d">>, <<"g">>, <<"h">>, <<"e", "x">>}

RECURSIVE Spaces(_)
Spaces(n) == IF n = 0 THEN <<>> ELSE <<" ">> \o Spaces(n - 1)

\* the token sequences of length n
RECURSIVE TokenSeqs(_)
TokenSeqs(n) ==
    IF n = 0 THEN {<<>>}
    ELSE {Append(s, tk) : s \in TokenSeqs(n - 1), tk \in Tokens}

\* tokens joined by runs of gap delimiters
RECURSIVE Join(_, _)
Join(tokens, gap) ==
    IF tokens = <<>> THEN <<>>
    ELSE IF Len(tokens) = 1 THEN Head(tokens)
         ELSE Head(tokens) \o Spaces(gap) \o Join(Tail(tokens), gap)

\* message texts: the static prefix, then up to MaxSegs tokens a delimiter
\* apart; two tokens a run of delimiters apart; a text without the prefix; a
\* text with a delimiter between the prefix and the first token
Contents ==
    {StaticPrefix \o Join(ts, 1) : ts \in UNION {TokenSeqs(n) : n \in 0..MaxSegs}}
    \cup {StaticPrefix \o Join(ts, gap) : ts \in TokenSeqs(2), gap \in 2..MaxGap}
    \cup {<<"p">>, StaticPrefix \o <<" ", "p">>}

\* the names of the commands and groups spelled in either letter case
CaseTokens == {<<"p">>, <<"P">>, <<"q">>, <<"Q">>, <<"s">>, <<"g">>}

RECURSIVE CaseTokenSeqs(_)
CaseTokenSeqs(n) ==
    IF n = 0 THEN {<<>>}
    ELSE {Append(s, tk) : s \in CaseTokenSeqs(n - 1), tk \in CaseTokens}

\* message texts sent to a program under the case-insensitive policy
CaseContents ==
    {StaticPrefix \o Join(ts, 1) : ts \in UNION {CaseTokenSeqs(n) : n \in 1..MaxCaseSegs}}

Message(content) ==
    [content |-> content, private |-> FALSE, author |-> "u1", channel_id |-> "ch1",
     guild_id |-> Some("gd1")]

NoMessage == Message(<<>>)

Reasons == {"Unknown", "User"}

Envs == [passing : 0..MaxPassing, reason : Reasons, hook : {None}]

NoEnv == [passing |-> 0, reason |-> "Unknown", hook |-> None]

\* block-lists a host may have set: at most one blocked entity
BlockLists ==
    {NoBlocked}
    \cup {[NoBlocked EXCEPT !.users = {"u1"}], [NoBlocked EXCEPT !.channels = {"ch1"}],
          [NoBlocked EXCEPT !.guilds = {"gd1"}], [NoBlocked EXCEPT !.groups = {"grp"}]}
    \cup {[NoBlocked EXCEPT !.commands = {id}] : id \in CommandIds}

\* the start-ups explored: <<program, block-lists, case_insensitive>>.
\* Block-lists and the case policy are varied under program "A"; the
\* group-less implementation has no block-lists and runs "F".
Setups(v) ==
    IF HasGroups(v)
    THEN {<<"A", b, FALSE>> : b \in BlockLists}
         \cup {<<"A", NoBlocked, TRUE>>, <<"B", NoBlocked, FALSE>>, <<"C", NoBlocked, FALSE>>,
               <<"D", NoBlocked, FALSE>>}
    ELSE {<<"F", NoBlocked, ci>> : ci \in BOOLEAN}
         \cup {<<"G", NoBlocked, FALSE>>, <<"H", NoBlocked, FALSE>>}

NoResult == Err(NoError, Start)

\* no concurrent task has started
Dispatchers == {"d1", "d2"}
IdleTask == [pc |-> "idle", msg |-> NoMessage, res |-> NoResult]
NoTasks == [t \in Dispatchers |-> IdleTask]
NoReg == [pc |-> "idle", count |-> 0]

\* no segment iterator was made
NoSeg == [kind |-> "", src |-> <<>>, delimiter |-> <<>>, before |-> <<>>, rest |-> <<>>,
          out |-> <<>>, ended |-> FALSE]

NoFin ==
    [op |-> "", text |-> <<>>, id |-> <<>>, private |-> FALSE, hook |-> None,
     r |-> NoPrefix, stages |-> <<>>]

----------------------------------------------------------------------------
(* The dispatcher *)

\* the configuration a program's start-up builds
Build(v, pr, ci, blocked) ==
    Register([Configuration_new EXCEPT !.prefixes = <<StaticPrefix>>,
                                       !.case_insensitive = ci,
                                       !.blocked_entities = blocked],
             v, pr, Registrations(v, pr))

Init ==
    /\ variant \in Variants
    /\ \E su \in Setups(variant) :
           /\ prog = su[1]
           /\ conf = Build(variant, su[1], su[3], su[2])
    /\ pc = "idle"
    /\ msg = NoMessage
    /\ res = NoResult
    /\ answers = NoEnv
    /\ log = <<>>
    /\ fin = NoFin
    /\ lock = None
    /\ tasks = NoTasks
    /\ reg = NoReg
    /\ seg = NoSeg
    /\ stack = <<>>

\* a message arrives; dispatch locks the configuration
Receive ==
    /\ pc = "idle"
    /\ \E content \in (IF conf.case_insensitive THEN CaseContents ELSE Contents) :
           msg' = Message(content)
    /\ pc' = "locked"
    /\ res' = NoResult
    /\ answers' = NoEnv
    /\ log' = <<>>
    /\ UNCHANGED <<variant, prog, conf, fin, lockvars, seg, stack>>

Resolve(c, m, e) ==
    CASE variant = "lib" -> Resolve_lib(c, m, e)
      [] variant = "content" -> Resolve_content(c, m, e)
      [] variant = "fw" -> Resolve_fw(c, m, e)

\* resolution under the lock; the lock is dropped at its end. An environment
\* is taken once for each distinct course of the dispatch.
ResolveStep ==
    /\ pc = "locked"
    /\ \E e \in Envs :
           \E r \in {Resolve(conf, msg, e)} :
               /\ e.passing <= NumChecks(r.log)
               /\ (r.err.tag = "CheckFailed" \/ e.reason = "Unknown")
               /\ res' = r
               /\ answers' = e
               /\ log' = r.log
               /\ pc' = IF r.kind = "ok" THEN "resolved" ELSE "done"
    /\ UNCHANGED <<variant, prog, conf, msg, fin, lockvars, seg, stack>>

\* hook(ctx, msg, func).await.map_err(Error::User): the handler of the
\* resolved command runs, and its error, if any, is returned
Invoke ==
    /\ pc = "resolved"
    /\ log' = Append(log, <<"handler", Last(res.chain), "", "">>)
    /\ \E k \in {"ok", "user"} : res' = [res EXCEPT !.kind = k]
    /\ pc' = "done"
    /\ UNCHANGED <<variant, prog, conf, msg, answers, fin, lockvars, seg, stack>>

\* dispatch has returned; the next message may come
Return ==
    /\ pc = "done"
    /\ pc' = "idle"
    /\ msg' = NoMessage
    /\ res' = NoResult
    /\ answers' = NoEnv
    /\ log' = <<>>
    /\ UNCHANGED <<variant, prog, conf, fin, lockvars, seg, stack>>

Next == Receive \/ ResolveStep \/ Invoke \/ Return

Spec == Init /\ [][Next]_vars

----------------------------------------------------------------------------
(* The prefix resolver on its own: content applied to one message under    *)
(* each setting of the prefix options                                       *)

MaxIndex == 2       \* the largest byte offset the dynamic-prefix hook answers

BotId == <<"7">>

\* a static prefix with a cased letter
LetterPrefix == <<"Q", "!">>

\* the settings of Configuration::prefix, ::dynamic_prefix, ::case_insensitive,
\* ::no_dm_prefix and ::on_mention
PrefixConfs ==
    {[Configuration_new EXCEPT !.prefixes = ps, !.dynamic_prefix = d,
                               !.case_insensitive = ci,
                               !.no_dm_prefix = n, !.on_mention = om] :
        ps \in {<<>>, <<StaticPrefix>>, <<LetterPrefix>>}, d \in BOOLEAN,
        ci \in BOOLEAN, n \in BOOLEAN, om \in {None, Some(BotId)}}

PrefixTexts ==
    {<<>>, <<"x">>, <<"!">>, <<"!", "x">>,
     <<"<", "@", "7", ">", " ", "x">>, <<"<", "@", "!", "7", ">", "x">>,
     <<"<", "@", "8", ">", "x">>,
     <<"Q", "!", "x">>, <<"q", "!", "x">>}

\* what the hook may answer: nothing is asked of a hook that is not configured
HookAnswers(c) ==
    IF c.dynamic_prefix THEN {None} \cup {Some(i) : i \in 0..MaxIndex} ELSE {None}

PrefixInit ==
    /\ variant \in {"fw", "content"}
    /\ prog = "F"
    /\ conf \in PrefixConfs
    /\ pc = "idle"
    /\ \E text \in PrefixTexts, private \in BOOLEAN :
           msg = [Message(text) EXCEPT !.private = private]
    /\ res = NoResult
    /\ answers = NoEnv
    /\ log = <<>>
    /\ fin = NoFin
    /\ lock = None
    /\ tasks = NoTasks
    /\ reg = NoReg
    /\ seg = NoSeg
    /\ stack = <<>>

\* parse::content(..) applied to the message
ParseContent ==
    /\ pc = "idle"
    /\ \E hook \in HookAnswers(conf) :
           LET out == IF variant = "fw" THEN content_fw(conf, msg, hook)
                                        ELSE content_src(conf, msg, hook)
           IN  fin' = [op |-> "content", text |-> msg.content,
                       id |-> IF IsSome(conf.on_mention) THEN Unwrap(conf.on_mention) ELSE <<>>,
                       private |-> msg.private, hook |-> hook, r |-> out.r,
                       stages |-> out.stages]
    /\ pc' = "done"
    /\ UNCHANGED <<variant, prog, conf, msg, res, answers, log, lockvars, seg, stack>>

SpecPrefix == PrefixInit /\ [][ParseContent]_vars

----------------------------------------------------------------------------
(* The mention parser on its own: mention applied to every text up to a    *)
(* length over the characters a mention is made of                          *)

MaxText == 6        \* characters of a message text

MentionAlphabet == {"<", "@", "!", "7", ">", " "}

\* the texts of length n over the alphabet, as functions on 1..n
Texts(n) == [1..n -> MentionAlphabet]

MentionInit ==
    /\ variant = "fw"
    /\ prog = "F"
    /\ conf = [Configuration_new EXCEPT !.on_mention = Some(BotId)]
    /\ pc = "idle"
    /\ \E n \in 0..MaxText : \E f \in Texts(n) : msg = Message(SubSeq(f, 1, n))
    /\ res = NoResult
    /\ answers = NoEnv
    /\ log = <<>>
    /\ fin = NoFin
    /\ lock = None
    /\ tasks = NoTasks
    /\ reg = NoReg
    /\ seg = NoSeg
    /\ stack = <<>>

\* mention(&msg.content, &on_mention) applied to the message
ParseMention ==
    /\ pc = "idle"
    /\ LET mt == mention(msg.content, Unwrap(conf.on_mention))
       IN  fin' = [op |-> "mention", text |-> msg.content, id |-> Unwrap(conf.on_mention),
                   private |-> FALSE, hook |-> None,
                   r |-> IF IsSome(mt) THEN SomePrefix(Unwrap(mt)) ELSE NoPrefix,
                   stages |-> <<>>]
    /\ pc' = "done"
    /\ UNCHANGED <<variant, prog, conf, msg, res, answers, log, lockvars, seg, stack>>

SpecMention == MentionInit /\ [][ParseMention]_vars

----------------------------------------------------------------------------
(* Concurrent dispatches: every dispatch_with_hook call and every change   *)
(* of the configuration goes through the Mutex of Framework::conf           *)

MaxMutations == 1   \* changes of the configuration while the bot runs

\* the messages the concurrent dispatches receive
LockTexts == {StaticPrefix \o <<"p">>, StaticPrefix \o <<"p", " ", "s">>, <<"p">>}

\* what a task holding the lock may do to the configuration: a policy
\* change or a registration
Mutations(c, v, pr) ==
    {[c EXCEPT !.case_insensitive = ~@],
     IF HasGroups(v) THEN Configuration_command_src(c, pr, "sub")
                     ELSE Configuration_command_fw(c, pr, "deflt")}

dispatchvars == <<variant, prog, pc, msg, res, answers, log, fin, seg, stack>>

LockInit ==
    /\ variant \in {"lib", "fw"}
    /\ prog = IF HasGroups(variant) THEN "A" ELSE "F"
    /\ conf = Build(variant, prog, FALSE, NoBlocked)
    /\ pc = "idle"
    /\ msg = NoMessage
    /\ res = NoResult
    /\ answers = NoEnv
    /\ log = <<>>
    /\ fin = NoFin
    /\ lock = None
    /\ tasks = NoTasks
    /\ reg = NoReg
    /\ seg = NoSeg
    /\ stack = <<>>

\* dispatch_with_hook is called with a message
Arrive(t) ==
    /\ tasks[t].pc = "idle"
    /\ \E text \in LockTexts :
           tasks' = [tasks EXCEPT ![t] = [pc |-> "waiting", msg |-> Message(text),
                                          res |-> NoResult]]
    /\ UNCHANGED <<conf, lock, reg>>
    /\ UNCHANGED dispatchvars

\* self.conf.lock().await returns: the Mutex is free and is taken
Lock(t) ==
    /\ tasks[t].pc = "waiting"
    /\ lock = None
    /\ lock' = Some(t)
    /\ tasks' = [tasks EXCEPT ![t].pc = "locked"]
    /\ UNCHANGED <<conf, reg>>
    /\ UNCHANGED dispatchvars

\* the resolution block leaving the guard alive at its end
ResolveLocked_holding(t) ==
    /\ tasks[t].pc = "locked"
    /\ \E e \in Envs :
           \E r \in {Resolve(conf, tasks[t].msg, e)} :
               /\ e.passing <= NumChecks(r.log)
               /\ (r.err.tag = "CheckFailed" \/ e.reason = "Unknown")
               /\ tasks' = [tasks EXCEPT ![t].res = r,
                                         ![t].pc = IF r.kind = "ok" THEN "resolved" ELSE "done"]
    /\ UNCHANGED <<conf, lock, reg>>
    /\ UNCHANGED dispatchvars

\* the resolution block: it runs with the guard and the guard is dropped at
\* its end, by the end of the block or by an early return
ResolveLocked(t) ==
    /\ tasks[t].pc = "locked"
    /\ \E e \in Envs :
           \E r \in {Resolve(conf, tasks[t].msg, e)} :
               /\ e.passing <= NumChecks(r.log)
               /\ (r.err.tag = "CheckFailed" \/ e.reason = "Unknown")
               /\ tasks' = [tasks EXCEPT ![t].res = r,
                                         ![t].pc = IF r.kind = "ok" THEN "resolved" ELSE "done"]
    /\ lock' = None
    /\ UNCHANGED <<conf, reg>>
    /\ UNCHANGED dispatchvars

\* hook(ctx, msg, func) is called: the handler starts
HandlerStart(t) ==
    /\ tasks[t].pc = "resolved"
    /\ tasks' = [tasks EXCEPT ![t].pc = "handler"]
    /\ UNCHANGED <<conf, lock, reg>>
    /\ UNCHANGED dispatchvars

\* the handler calls ctx.conf.lock().await
HandlerRequest(t) ==
    /\ tasks[t].pc = "handler"
    /\ tasks' = [tasks EXCEPT ![t].pc = "handler_waiting"]
    /\ UNCHANGED <<conf, lock, reg>>
    /\ UNCHANGED dispatchvars

\* the handler's lock().await returns
HandlerAcquire(t) ==
    /\ tasks[t].pc = "handler_waiting"
    /\ lock = None
    /\ lock' = Some(t)
    /\ tasks' = [tasks EXCEPT ![t].pc = "handler_locked"]
    /\ UNCHANGED <<conf, reg>>
    /\ UNCHANGED dispatchvars

\* the handler drops its guard
HandlerRelease(t) ==
    /\ tasks[t].pc = "handler_locked"
    /\ lock' = None
    /\ tasks' = [tasks EXCEPT ![t].pc = "handler_used"]
    /\ UNCHANGED <<conf, reg>>
    /\ UNCHANGED dispatchvars

\* the handler returns; its error, if any, becomes Error::User
HandlerEnd(t) ==
    /\ tasks[t].pc \in {"handler", "handler_used"}
    /\ \E k \in {"ok", "user"} :
           tasks' = [tasks EXCEPT ![t].pc = "done", ![t].res.kind = k]
    /\ UNCHANGED <<conf, lock, reg>>
    /\ UNCHANGED dispatchvars

\* dispatch_with_hook has returned
Finish(t) ==
    /\ tasks[t].pc = "done"
    /\ tasks' = [tasks EXCEPT ![t] = IdleTask]
    /\ UNCHANGED <<conf, lock, reg>>
    /\ UNCHANGED dispatchvars

\* a task of the host calls framework.conf.lock().await
RegRequest ==
    /\ reg.pc = "idle"
    /\ reg.count < MaxMutations
    /\ reg' = [reg EXCEPT !.pc = "waiting"]
    /\ UNCHANGED <<conf, lock, tasks>>
    /\ UNCHANGED dispatchvars

RegLock ==
    /\ reg.pc = "waiting"
    /\ lock = None
    /\ lock' = Some("reg")
    /\ reg' = [reg EXCEPT !.pc = "mutating"]
    /\ UNCHANGED <<conf, tasks>>
    /\ UNCHANGED dispatchvars

\* the configuration is changed through the guard, and the guard is dropped
RegMutate ==
    /\ reg.pc = "mutating"
    /\ conf' \in Mutations(conf, variant, prog)
    /\ lock' = None
    /\ reg' = [pc |-> "idle", count |-> reg.count + 1]
    /\ UNCHANGED tasks
    /\ UNCHANGED dispatchvars

LockNext ==
    \/ \E t \in Dispatchers :
           \/ Arrive(t) \/ Lock(t) \/ ResolveLocked(t)
           \/ HandlerStart(t) \/ HandlerRequest(t) \/ HandlerAcquire(t)
           \/ HandlerRelease(t) \/ HandlerEnd(t) \/ Finish(t)
    \/ RegRequest \/ RegLock \/ RegMutate

SpecLock == LockInit /\ [][LockNext]_vars

----------------------------------------------------------------------------
(* The segment iterators on their own: Segments (with a &str delimiter and *)
(* with a char delimiter) and ArgumentSegments, iterated to their end       *)

MaxSrc == 5         \* characters of a source string

SegAlphabet == {"a", " ", ",", Quote}

\* the example sources of the documentation and of the tests
SegExamples ==
    {<<"a", "b", "c", " ", "f", "o", "o", " ", " ", " ", " ", " ", " ", "b", "a", "r">>,
     <<Quote, "a", " ", "b", Quote, " ", "c">>,
     <<Quote, "u", "n", "t", "e", "r", "m", "i", "n", "a", "t", "e", "d">>}

\* the iterators and their delimiters: Segments of src/framework/src takes a
\* &str, Segments of src/src a char
SegKinds ==
    {<<k, d>> : k \in {"Segments", "ArgumentSegments"}, d \in {<<" ">>, <<",", " ">>, <<" ", " ">>}}
    \cup {<<"SegmentsChar", d>> : d \in {<<" ">>, <<",">>}}

\* the sources of length n over the alphabet, as functions on 1..n
Sources(n) == [1..n -> SegAlphabet]

SegInit ==
    /\ variant = "fw"
    /\ prog = "F"
    /\ conf = Configuration_new
    /\ pc = "idle"
    /\ msg = NoMessage
    /\ res = NoResult
    /\ answers = NoEnv
    /\ log = <<>>
    /\ fin = NoFin
    /\ lock = None
    /\ tasks = NoTasks
    /\ reg = NoReg
    /\ stack = <<>>
    /\ \E kd \in SegKinds :
           \E src \in SegExamples \cup UNION {{SubSeq(f, 1, n) : f \in Sources(n)} : n \in 0..MaxSrc} :
               seg = [kind |-> kd[1], src |-> src, delimiter |-> kd[2], before |-> src,
                      rest |-> src, out |-> <<>>, ended |-> FALSE]

\* the iterator after a call of next() that made the split sp
AfterNext(sp) ==
    IF sp = None
    THEN [seg EXCEPT !.ended = TRUE, !.before = seg.rest]
    ELSE [seg EXCEPT !.out = Append(@, sp[1][1]), !.rest = sp[1][2], !.before = seg.rest]

\* one call of next() with the split it is made of
Advance(sp) ==
    /\ ~seg.ended
    /\ seg' = AfterNext(sp)
    /\ UNCHANGED <<variant, prog, conf, pc, msg, res, answers, log, fin, lockvars, stack>>

\* Segments::next of src/framework/src/utils/segments.rs (case_insensitive false)
SegmentsNext ==
    /\ seg.kind = "Segments"
    /\ Advance(segment_split_str(seg.rest, seg.delimiter))

\* Segments::next of src/src/parse/segments.rs (case_insensitive false)
SegmentsCharNext ==
    /\ seg.kind = "SegmentsChar"
    /\ Advance(segment_split(seg.rest, seg.delimiter[1]))

\* ArgumentSegments::next
ArgumentSegmentsNext ==
    /\ seg.kind = "ArgumentSegments"
    /\ Advance(argument_segment_split(seg.rest, seg.delimiter))

\* T::from_str of an argument type: a unary numeral, one or more "a", converts
\* to its value; any other text is the type's parse error.
\* The result is <<tag, value, error>>.
from_str(s) ==
    IF s # <<>> /\ \A i \in 1..Len(s) : s[i] = "a"
    THEN <<"ok", <<Len(s)>>, <<>>>>
    ELSE <<"err", <<>>, <<"invalid", Len(s)>>>>

\* required_argument_from_str, given what segments.next() returned:
\* <<"ok", <<value>>, _>>, <<"missing", _, _>> or <<"argument", _, inner error>>
required_argument_from_str(sp) ==
    IF sp = None
    THEN <<"missing", <<>>, <<>>>>
    ELSE IF from_str(sp[1][1])[1] = "ok"
         THEN <<"ok", from_str(sp[1][1])[2], <<>>>>
         ELSE <<"argument", <<>>, from_str(sp[1][1])[3]>>

\* optional_argument_from_str failing on an exhausted input
optional_argument_from_str_missing(sp) ==
    IF sp = None
    THEN <<"missing", <<>>, <<>>>>
    ELSE IF from_str(sp[1][1])[1] = "ok"
         THEN <<"ok", <<from_str(sp[1][1])[2]>>, <<>>>>
         ELSE <<"argument", <<>>, from_str(sp[1][1])[3]>>

\* optional_argument_from_str: the value is an Option, <<"ok", None, _>> or
\* <<"ok", Some(<<value>>), _>>
optional_argument_from_str(sp) ==
    IF sp = None
    THEN <<"ok", None, <<>>>>
    ELSE IF from_str(sp[1][1])[1] = "ok"
         THEN <<"ok", Some(from_str(sp[1][1])[2]), <<>>>>
         ELSE <<"argument", <<>>, from_str(sp[1][1])[3]>>

\* an argument is bound from the iterator: segments.next() and the conversion
BindArgument(op, sp, r) ==
    /\ seg.kind = "ArgumentSegments"
    /\ ~seg.ended
    /\ seg' = AfterNext(sp)
    /\ fin' = [op |-> op, text |-> seg.rest, id |-> seg.delimiter, private |-> FALSE,
               hook |-> None, r |-> r, stages |-> <<>>]
    /\ UNCHANGED <<variant, prog, conf, pc, msg, res, answers, log, lockvars, stack>>

RequiredArgument ==
    \E sp \in {argument_segment_split(seg.rest, seg.delimiter)} :
        BindArgument("required", sp, required_argument_from_str(sp))

OptionalArgument ==
    \E sp \in {argument_segment_split(seg.rest, seg.delimiter)} :
        BindArgument("optional", sp, optional_argument_from_str(sp))

SegNext ==
    \/ SegmentsNext \/ SegmentsCharNext \/ ArgumentSegmentsNext
    \/ RequiredArgument \/ OptionalArgument

SpecSegments == SegInit /\ [][SegNext]_vars

----------------------------------------------------------------------------
(* The parameter-list check of the #[command] macro *)

MaxArgs == 4

ArgumentType == {"Required", "Optional", "Variadic", "Rest"}

\* the match on (last_arg.parser.type_, arg.parser.type_): None for the pairs
\* of the last arm, otherwise Some(<<message, whose span: 0 last_arg, 1 arg>>)
PairError_adjacent_kinds(last, arg) ==
    CASE last = "Optional" /\ arg = "Required" ->
             Some(<<"optional argument cannot precede a required argument", 0>>)
      [] last = "Variadic" /\ arg = "Required" ->
             Some(<<"variadic argument cannot precede a required argument", 0>>)
      [] last = "Variadic" /\ arg = "Optional" ->
             Some(<<"variadic argument cannot precede an optional argument", 0>>)
      [] last = "Rest" /\ arg = "Required" ->
             Some(<<"rest argument cannot precede a required argument", 0>>)
      [] last = "Rest" /\ arg = "Optional" ->
             Some(<<"rest argument cannot precede an optional argument", 0>>)
      [] last = "Variadic" /\ arg = "Variadic" ->
             Some(<<"a command cannot have two variadic argument parameters", 1>>)
      [] last = "Rest" /\ arg = "Rest" ->
             Some(<<"a command cannot have two rest argument parameters", 1>>)
      [] OTHER -> None

PairError(last, arg) ==
    CASE last = "Optional" /\ arg = "Required" ->
             Some(<<"optional argument cannot precede a required argument", 0>>)
      [] last = "Variadic" /\ arg = "Required" ->
             Some(<<"variadic argument cannot precede a required argument", 0>>)
      [] last = "Variadic" /\ arg = "Optional" ->
             Some(<<"variadic argument cannot precede an optional argument", 0>>)
      [] last = "Rest" /\ arg = "Required" ->
             Some(<<"rest argument cannot precede a required argument", 0>>)
      [] last = "Rest" /\ arg = "Optional" ->
             Some(<<"rest argument cannot precede an optional argument", 0>>)
      [] last = "Rest" /\ arg = "Variadic" ->
             Some(<<"a rest argument cannot be used alongside a variadic argument", 0>>)
      [] last = "Variadic" /\ arg = "Rest" ->
             Some(<<"a variadic argument cannot be used alongside a rest argument", 0>>)
      [] last = "Variadic" /\ arg = "Variadic" ->
             Some(<<"a command cannot have two variadic argument parameters", 1>>)
      [] last = "Rest" /\ arg = "Rest" ->
             Some(<<"a command cannot have two rest argument parameters", 1>>)
      [] OTHER -> None

\* check_arguments: the loop `for arg in args` returns at the first argument
\* whose pair with the argument before it is refused:
\* <<"ok", _, _>> or <<"err", <<message>>, <<index of the span>>>>
check_arguments(args) ==
    LET refused == {i \in 2..Len(args) : IsSome(PairError(args[i - 1], args[i]))}
        first == CHOOSE i \in refused : \A j \in refused : i <= j
    IN  IF refused = {}
        THEN <<"ok", <<>>, <<>>>>
        ELSE <<"err", <<Unwrap(PairError(args[first - 1], args[first]))[1]>>,
               <<first - 1 + Unwrap(PairError(args[first - 1], args[first]))[2]>>>>

ArgInit ==
    /\ variant = "fw"
    /\ prog = "F"
    /\ conf = Configuration_new
    /\ pc = "idle"
    /\ msg = NoMessage
    /\ res = NoResult
    /\ answers = NoEnv
    /\ log = <<>>
    /\ lock = None
    /\ tasks = NoTasks
    /\ reg = NoReg
    /\ seg = NoSeg
    /\ stack = <<>>
    /\ \E n \in 0..MaxArgs : \E args \in [1..n -> ArgumentType] :
           fin = [NoFin EXCEPT !.text = args]

\* the macro expands a command function: its parameter list is checked
CheckArguments ==
    /\ fin.op = ""
    /\ fin' = [fin EXCEPT !.op = "check_arguments", !.r = check_arguments(fin.text)]
    /\ UNCHANGED <<variant, prog, conf, pc, msg, res, answers, log, lockvars, seg, stack>>

SpecArguments == ArgInit /\ [][CheckArguments]_vars

----------------------------------------------------------------------------
(* Registration call by call: Configuration::command with the calls it makes *)
(* to itself (src/src) or to _subcommand and _command (src/framework/src)    *)

MaxCalls == 2
MaxDepth == 4

RegInit ==
    /\ variant \in {"lib", "fw"}
    /\ prog \in {"F", "J", "K", "L"}
    /\ \E ci \in BOOLEAN : conf = [Configuration_new EXCEPT !.case_insensitive = ci]
    /\ pc = "idle"
    /\ msg = NoMessage
    /\ res = NoResult
    /\ answers = NoEnv
    /\ log = <<>>
    /\ fin = NoFin
    /\ lock = None
    /\ tasks = NoTasks
    /\ reg = NoReg
    /\ seg = NoSeg
    /\ stack = <<>>

\* the body of command (src/src) or _command (src/framework/src) up to its
\* loop over the subcommands: the constructor runs and the names are bound
EnterCommand(c, st, id) ==
    /\ Len(st) < MaxDepth
    /\ conf' = [c EXCEPT !.commands = InsertNames(@, CommandDecl(prog, id).names, id,
                                                  c.case_insensitive),
                         !.constructed = Append(@, id)]
    /\ stack' = Append(st, [id |-> id, pending |-> CommandDecl(prog, id).subcommands])
    /\ fin' = [NoFin EXCEPT !.op = "entered", !.id = <<id>>]

\* the host calls Configuration::command
CallCommand ==
    /\ stack = <<>>
    /\ reg.count < MaxCalls
    /\ reg' = [reg EXCEPT !.count = @ + 1]
    /\ \E id \in CommandIds :
           IF variant = "fw" /\ id \in conf.root_level_commands
           THEN /\ fin' = [NoFin EXCEPT !.op = "returned", !.id = <<id>>]
                /\ UNCHANGED <<conf, stack>>
           ELSE EnterCommand(IF variant = "fw"
                             THEN [conf EXCEPT !.root_level_commands = @ \cup {id}]
                             ELSE conf,
                             stack, id)
    /\ UNCHANGED <<variant, prog, pc, msg, res, answers, log, lock, tasks, seg>>

\* one iteration of `for id in &command.subcommands`
RegisterSubcommand ==
    /\ stack # <<>>
    /\ \E id \in Last(stack).pending :
           \E st \in {[stack EXCEPT ![Len(stack)].pending = @ \ {id}]} :
               IF variant = "fw" /\ subcommand_exists(conf, id)
               THEN stack' = st /\ UNCHANGED <<conf, fin>>
               ELSE EnterCommand(conf, st, id)
    /\ UNCHANGED <<variant, prog, pc, msg, res, answers, log, lockvars, seg>>

\* after the loop: the command is stored and the call returns
StoreCommand ==
    /\ stack # <<>>
    /\ Last(stack).pending = {}
    /\ conf' = [conf EXCEPT !.commands =
                    IdMap_insert(@, Last(stack).id,
                                 IF variant = "fw"
                                 THEN CommandBuilder_build_fw(prog, Last(stack).id)
                                 ELSE CommandBuilder_build_src(prog, Last(stack).id))]
    /\ stack' = SubSeq(stack, 1, Len(stack) - 1)
    /\ fin' = IF Len(stack) = 1
              THEN [NoFin EXCEPT !.op = "returned", !.id = <<Last(stack).id>>]
              ELSE fin
    /\ UNCHANGED <<variant, prog, pc, msg, res, answers, log, lockvars, seg>>

SpecRegister == RegInit /\ [][CallCommand \/ RegisterSubcommand \/ StoreCommand]_vars

----------------------------------------------------------------------------
(* The group parsing iterator of src/framework/src/parse/content.rs *)

\* groups(conf, segments): the iterator over a source, no group matched yet.
\* fin.text is the source of its segments and fin.id its field group.
GroupsInit ==
    /\ variant = "content"
    /\ prog \in {"A", "B", "C"}
    /\ conf = Build(variant, prog, FALSE, NoBlocked)
    /\ pc = "idle"
    /\ msg = NoMessage
    /\ res = NoResult
    /\ answers = NoEnv
    /\ log = <<>>
    /\ lock = None
    /\ tasks = NoTasks
    /\ reg = NoReg
    /\ seg = NoSeg
    /\ stack = <<>>
    /\ \E ts \in UNION {TokenSeqs(n) : n \in 0..MaxSegs} :
           fin = [NoFin EXCEPT !.op = "groups", !.text = Join(ts, 1)]

\* GroupIterator::next. The item returned is fin.r: <<"none", _, _>> for None,
\* <<"ok", self.group, _>> for Some(Ok(self.group)) and
\* <<"err", group.id, g.id>> for Some(Err(InvalidSubgroup(group.id, g.id))).
GroupIterator_next ==
    /\ fin.op = "groups"
    /\ \E name \in {Segments_current(fin.text, conf.case_insensitive)} :
       \E g \in {IF IsSome(name) THEN IdMap_get_by_name(conf.groups, Unwrap(name)) ELSE None} :
           fin' = IF name = None
                  THEN [fin EXCEPT !.r = <<"none", <<>>, <<>>>>]
                  ELSE IF g = None
                       THEN [fin EXCEPT !.r = <<"ok", fin.id, <<>>>>]
                       ELSE IF IsSome(fin.id) /\ Unwrap(g).id \notin conf.groups.aggregrates[Unwrap(fin.id)].subgroups
                            THEN [fin EXCEPT !.r = <<"err", fin.id, <<Unwrap(g).id>>>>]
                            ELSE [fin EXCEPT
                                     !.text = Unwrap(Segments_next(fin.text, conf.case_insensitive))[2],
                                     !.id = <<Unwrap(g).id>>,
                                     !.r = <<"ok", <<Unwrap(g).id>>, <<>>>>]
    /\ UNCHANGED <<variant, prog, conf, pc, msg, res, answers, log, lockvars, seg, stack>>

SpecGroups == GroupsInit /\ [][GroupIterator_next]_vars

----------------------------------------------------------------------------
(* Properties of one dispatch *)

\* resolution is over and its outcome is in res
Settled == pc \in {"resolved", "done"}

\* resolution succeeded (the handler's own error leaves that unchanged)
Resolved == res.kind \in {"ok", "user"}

NoCheckFailed == \A i \in 1..Len(log) : ~(log[i][1] = "check" /\ log[i][4] = "fail")

NothingBlocked == conf.blocked_entities = NoBlocked

Registered == DOMAIN conf.commands.aggregrates

RegisteredGroups == DOMAIN conf.groups.aggregrates

Cmd(id) == conf.commands.aggregrates[id]

Names(id) == {Cmd(id).names[i] : i \in 1..Len(Cmd(id).names)}

\* the commands a message may name right after the prefix
RootLevel(id) ==
    /\ id \in Registered
    /\ IF HasGroups(variant) THEN IsSome(FindTopLevel(conf, id)) ELSE id \in conf.root_level_commands

Handlers == {i \in 1..Len(log) : log[i][1] = "handler"}

Range(s) == {s[i] : i \in 1..Len(s)}

----------------------------------------------------------------------------
\* C1 as stated: for every registered command c and every alias n of c, the
\* message prefix ++ n resolves to c with empty residual text (checks passing,
\* nothing block-listed).
C1_EveryRegisteredAlias ==
    \A id \in Registered : \A n \in Names(id) :
        (Settled /\ msg.content = StaticPrefix \o n /\ NoCheckFailed /\ NothingBlocked)
            => (Resolved /\ res.chain = <<id>> /\ res.args = <<>>)

\* C1 as amended: for every registered root-level command c and every alias
\* n of c, the message prefix ++ n resolves to c with empty residual text
\* (checks passing, nothing block-listed).
C1_RootLevelAlias ==
    \A id \in Registered : \A n \in Names(id) :
        (Settled /\ msg.content = StaticPrefix \o n /\ NoCheckFailed /\ NothingBlocked
           /\ RootLevel(id))
            => (Resolved /\ res.chain = <<id>> /\ res.args = <<>> /\ res.prefix = StaticPrefix)

C1_Witness ==
    /\ pc = "done" /\ msg.content = StaticPrefix \o <<"Q">>
    /\ res.kind = "ok" /\ res.chain = <<"ping">> /\ res.args = <<>>
    /\ Handlers # {}

----------------------------------------------------------------------------
\* the source left after k segments were consumed
RECURSIVE AfterSegments(_, _)
AfterSegments(src, k) ==
    IF k = 0 \/ Segments_next(src, FALSE) = None
    THEN src
    ELSE AfterSegments(Segments_next(src, FALSE)[1][2], k - 1)

\* the k-th segment of the source, None when there is none
Segment(src, k) == Segments_current(AfterSegments(src, k - 1), FALSE)

\* the text after the static prefix
Body == SubSeq(msg.content, Len(StaticPrefix) + 1, Len(msg.content))

\* the message is prefix, a name of c, a name of s, and then nothing or text
\* that does not start with the name of a subcommand of s
InvokesSub(c, s) ==
    /\ starts_with(msg.content, StaticPrefix)
    /\ Segment(Body, 1) # None /\ Unwrap(Segment(Body, 1)) \in Names(c)
    /\ Segment(Body, 2) # None /\ Unwrap(Segment(Body, 2)) \in Names(s)
    /\ \A x \in Cmd(s).subcommands : Segment(Body, 3) = None \/ Unwrap(Segment(Body, 3)) \notin Names(x)

\* C2 as stated: for every command c with declared subcommand s, the message
\* prefix, name(c), name(s), "extra" resolves to s with residual "extra".
C2_EverySubcommand ==
    \A c \in Registered : \A s \in Cmd(c).subcommands : \A nc \in Names(c) : \A ns \in Names(s) :
        (Settled /\ msg.content = StaticPrefix \o nc \o <<" ">> \o ns \o <<" ", "e", "x">>
           /\ NoCheckFailed /\ NothingBlocked)
            => (Resolved /\ Last(res.chain) = s /\ res.args = <<"e", "x">>)

\* C2 as amended: for every root-level command c with declared subcommand s,
\* the message prefix, name(c), name(s), "extra" resolves to s with residual
\* "extra"; whatever follows name(s), the residual is the source text left
\* after the segment of s.
C2_RootLevelSubcommand ==
    \A c \in Registered : \A s \in Cmd(c).subcommands :
        (Settled /\ RootLevel(c) /\ NoCheckFailed /\ NothingBlocked)
            => /\ \A nc \in Names(c) : \A ns \in Names(s) :
                      msg.content = StaticPrefix \o nc \o <<" ">> \o ns \o <<" ", "e", "x">>
                          => (Resolved /\ res.chain = <<c, s>> /\ res.args = <<"e", "x">>)
               /\ InvokesSub(c, s)
                      => (Resolved /\ res.chain = <<c, s>> /\ res.args = AfterSegments(Body, 2))

C2_Witness ==
    /\ pc = "done" /\ msg.content = StaticPrefix \o <<"p", " ", "s", " ", "e", "x">>
    /\ res.kind = "ok" /\ res.chain = <<"ping", "sub">> /\ res.args = <<"e", "x">>
    /\ log[Len(log)] = <<"handler", "sub", "", "">>

----------------------------------------------------------------------------
\* the checks attached to a registered entity
EntityChecks(t) ==
    IF t \in GroupIds THEN conf.groups.aggregrates[t].checks ELSE Cmd(t).checks

\* every check of entity t was evaluated and passed before event h
ChecksPassedBefore(t, h) ==
    \A k \in 1..Len(EntityChecks(t)) :
        \E i \in 1..(h - 1) : log[i] = <<"check", EntityChecks(t)[k], t, "pass">>

\* C3: a handler is invoked at most once per dispatch, never in a dispatch
\* that ends in a DispatchError, and only after every check of every matched
\* group and of every command of the resolved chain (a default command
\* included) was evaluated and passed.
C3_HandlerAfterAllChecks ==
    /\ Cardinality(Handlers) <= 1
    /\ \A h \in Handlers :
           /\ Resolved
           /\ \A g \in Range(res.groups) : ChecksPassedBefore(g, h)
           /\ \A c \in Range(res.chain) : c \in Registered /\ ChecksPassedBefore(c, h)

----------------------------------------------------------------------------
IsCommandEvent(e) ==
    \/ e[1] = "check" /\ e[3] \in CommandIds
    \/ e[1] = "blocktest" /\ e[2] = "command"

\* C4: a block-listed user, channel, guild, matched group or command of the
\* invocation chain (the initial command included) makes dispatch return the
\* matching Blocked* error, without a handler invocation and before any check
\* of the blocked entity runs.
C4_BlockedBeforeChecks ==
    LET b == conf.blocked_entities
    IN  /\ \A i \in 1..Len(log) :
               log[i][1] = "check" => log[i][3] \notin (b.commands \cup b.groups)
        /\ Settled =>
               /\ msg.author \in b.users
                      => (res.err.tag = "BlockedUser" /\ NumChecks(log) = 0 /\ Handlers = {})
               /\ msg.channel_id \in b.channels
                      => (res.err.tag = "BlockedChannel" /\ NumChecks(log) = 0 /\ Handlers = {})
               /\ (IsSome(msg.guild_id) /\ Unwrap(msg.guild_id) \in b.guilds)
                      => (res.err.tag = "BlockedGuild" /\ NumChecks(log) = 0 /\ Handlers = {})
               /\ Range(res.groups) \cap b.groups = {}
               /\ Range(res.chain) \cap b.commands = {}

----------------------------------------------------------------------------
CheckAt(i) == log[i][1] = "check"

\* the first event of the run of evaluations, of one entity's checks, that
\* event i belongs to
RunStart(i) ==
    CHOOSE k \in 1..i :
        /\ \A j \in k..i : CheckAt(j) /\ log[j][3] = log[i][3]
        /\ k = 1 \/ ~(CheckAt(k - 1) /\ log[k - 1][3] = log[i][3])

\* C5: checks are evaluated in a fixed order: those of the matched groups,
\* outermost first, before any command's, each entity's checks in
\* registration order; the first failing check ends resolution with
\* CheckFailed carrying that check's name and the Reason it gave.
C5_CheckOrder ==
    /\ \A i \in 1..Len(log) : CheckAt(i) =>
           LET pos == i - RunStart(i) + 1
               t == log[i][3]
           IN  /\ pos <= Len(EntityChecks(t))
               /\ log[i][2] = EntityChecks(t)[pos]
               /\ pos > 1 => log[i - 1][4] = "pass"
               /\ \A j \in 1..(i - 1) : CheckAt(j) =>
                      /\ log[j][4] = "pass"
                      /\ t \in GroupIds => log[j][3] \in GroupIds
                      /\ (t \in GroupIds /\ log[j][3] # t
                            /\ \A m \in (j + 1)..(i - 1) : CheckAt(m) => log[m][3] = t)
                             => t \in conf.groups.aggregrates[log[j][3]].subgroups
               /\ log[i][4] = "fail" =>
                      /\ \A j \in (i + 1)..Len(log) : log[j][1] \notin {"check", "handler"}
                      /\ Settled => (res.kind = "err" /\
                                       res.err = DispatchError("CheckFailed", log[i][2], answers.reason, <<>>))
    /\ (Settled /\ res.err.tag = "CheckFailed") => ~NoCheckFailed

C5_Witness ==
    /\ pc = "done" /\ res.kind = "err"
    /\ res.err = DispatchError("CheckFailed", "cp2", "User", <<>>)
    /\ res.groups = <<"grp", "subgrp">>
    /\ NumChecks(log) = 5

----------------------------------------------------------------------------
\* the command the nearest command event before event i is about, None when
\* there is none
CommandBefore(i) ==
    LET js == {j \in 1..(i - 1) : IsCommandEvent(log[j])}
    IN  IF js = {} THEN None
        ELSE Some(log[CHOOSE j \in js : \A k \in js : k <= j][3])

\* C6: in the subcommand descent a segment naming a registered command that
\* is no declared subcommand of the current command is no error: no block-list
\* test and no check is applied to it, it is left unconsumed and it starts the
\* residual text.
C6_WrongParentLeftAlone ==
    /\ \A i \in 1..Len(log) :
           (IsCommandEvent(log[i]) /\ IsSome(CommandBefore(i))
              /\ (log[i][1] = "blocktest" \/ Unwrap(CommandBefore(i)) # log[i][3]))
               => log[i][3] \in Cmd(Unwrap(CommandBefore(i))).subcommands
    /\ \A c \in Registered : \A x \in Registered : \A nc \in Names(c) : \A nx \in Names(x) :
           (Settled /\ RootLevel(c) /\ x \notin Cmd(c).subcommands
              /\ msg.content = StaticPrefix \o nc \o <<" ">> \o nx
              /\ (\A k \in 1..Len(Cmd(c).checks) :
                     <<"check", Cmd(c).checks[k], c, "pass">> \in Range(log))
              /\ c \notin conf.blocked_entities.commands)
               => (Resolved /\ res.chain = <<c>> /\ res.args = nx)

----------------------------------------------------------------------------
\* C7: a message that is the prefix and the prefix token of a group declaring
\* a default command resolves to that default command with empty residual
\* text (checks passing, nothing block-listed).
C7_GroupAloneGivesDefault ==
    \A g \in RegisteredGroups :
        LET group == conf.groups.aggregrates[g]
        IN  \A i \in 1..Len(group.prefixes) :
                (Settled /\ IsSome(group.default_command)
                   /\ msg.content = StaticPrefix \o group.prefixes[i]
                   /\ NoCheckFailed /\ NothingBlocked)
                    => (Resolved /\ res.chain = <<Unwrap(group.default_command)>>
                          /\ res.args = <<>>)

\* C8: a message that is the prefix, the prefix token of a group with a
\* default command (one of the group's members) and the name of a declared
\* subcommand of that default command resolves to the subcommand, by descent
\* from the default command, and not to InvalidCommand.
C8_DefaultSubcommand ==
    \A g \in RegisteredGroups :
        LET group == conf.groups.aggregrates[g]
        IN  \A i \in 1..Len(group.prefixes) :
                (IsSome(group.default_command)
                   /\ Unwrap(group.default_command) \in Registered \cap group.commands)
                    => \A s \in Cmd(Unwrap(group.default_command)).subcommands : \A ns \in Names(s) :
                           (Settled /\ msg.content = StaticPrefix \o group.prefixes[i] \o <<" ">> \o ns
                              /\ NoCheckFailed /\ NothingBlocked)
                               => (Resolved /\ Last(res.chain) = s
                                     /\ res.err.tag # "InvalidCommand")

----------------------------------------------------------------------------
(* Properties of the prefix resolver *)

\* the rank of a stage in the order direct message, mention, static
\* prefixes, hook
Rank(s) ==
    CASE s = "dm" -> 1 [] s = "mention" -> 2 [] s = "static" -> 3 [] s = "hook" -> 4

AppliesDm == fin.private /\ conf.no_dm_prefix

AppliesMention == IsSome(conf.on_mention) /\ IsSome(mention(fin.text, Unwrap(conf.on_mention)))

AppliesStatic == IsSome(static_prefix(fin.text, conf.prefixes))

\* C9: prefix resolution tries the direct message under the no-DM-prefix
\* policy, the mention, the static prefixes and the hook in this order and
\* stops at the first that applies; the hook is invoked only when none of the
\* first three applied, and no invocation is the answer only when all fail.
C9_PrefixOrder ==
    fin.op = "content" =>
        /\ \A i \in 1..Len(fin.stages) : \A j \in 1..Len(fin.stages) :
               i < j => Rank(fin.stages[i]) < Rank(fin.stages[j])
        /\ AppliesDm => fin.r = SomePrefix(<<<<>>, fin.text>>)
        /\ (~AppliesDm /\ AppliesMention)
               => fin.r = SomePrefix(Unwrap(mention(fin.text, Unwrap(conf.on_mention))))
        /\ (~AppliesDm /\ ~AppliesMention /\ AppliesStatic)
               => fin.r = SomePrefix(Unwrap(static_prefix(fin.text, conf.prefixes)))
        /\ "hook" \in Range(fin.stages) => (~AppliesDm /\ ~AppliesMention /\ ~AppliesStatic)
        /\ fin.r[1] = "none"
               => (~AppliesDm /\ ~AppliesMention /\ ~AppliesStatic
                     /\ (conf.dynamic_prefix => fin.hook = None))

----------------------------------------------------------------------------
\* the mention texts of an identity: <@id> and <@!id>
MentionForms(id) == {<<"<", "@">> \o b \o id \o <<">">> : b \in {<<>>, <<"!">>}}

\* C10: mention succeeds exactly on the texts that begin with <@, at most one
\* !, the identity and >; the prefix it returns is that mention text and the
\* remainder is the text after > without its leading whitespace.
C10_MentionForm ==
    fin.op = "mention" =>
        /\ fin.r[1] = "some" <=> \E f \in MentionForms(fin.id) : starts_with(fin.text, f)
        /\ \A f \in MentionForms(fin.id) :
               starts_with(fin.text, f)
                   => fin.r = <<"some", f, trim_start(SubSeq(fin.text, Len(f) + 1, Len(fin.text)))>>

----------------------------------------------------------------------------
\* text t begins with prefix p up to letter case
StartsWithAnyCase(t, p) ==
    Len(p) <= Len(t) /\ to_lowercase(SubSeq(t, 1, Len(p))) = to_lowercase(p)

\* C11: under the case-insensitive policy a message whose leading text equals
\* a configured static prefix up to letter case is recognised as an invocation
\* with that prefix (no direct-message rule, mention or hook answer applying).
C11_StaticPrefixAnyCase ==
    (fin.op = "content" /\ conf.case_insensitive /\ ~AppliesDm /\ ~AppliesMention
       /\ fin.hook = None)
        => \A i \in 1..Len(conf.prefixes) :
               StartsWithAnyCase(fin.text, conf.prefixes[i])
                   => /\ fin.r[1] = "some"
                      /\ fin.r[2] = SubSeq(fin.text, 1, Len(conf.prefixes[i]))

----------------------------------------------------------------------------
\* C12: with the case-insensitive policy set before registration, a root-level
\* command registered under a name is resolved by a message spelling that
\* name in any letter case, always to the same identifier (checks passing,
\* nothing block-listed).
C12_AnyCaseSameId ==
    \A id \in Registered : \A n \in Names(id) :
        (Settled /\ conf.case_insensitive /\ RootLevel(id) /\ NoCheckFailed /\ NothingBlocked
           /\ starts_with(msg.content, StaticPrefix)
           /\ to_lowercase(Body) = to_lowercase(n))
            => (Resolved /\ res.chain = <<id>> /\ res.args = <<>>)

C12_Witness ==
    /\ pc = "done" /\ conf.case_insensitive
    /\ msg.content = StaticPrefix \o <<"q">>
    /\ <<"Q">> \in Names("ping")
    /\ res.kind = "ok" /\ res.chain = <<"ping">>
    /\ Handlers # {}

----------------------------------------------------------------------------
\* the number of runs of the constructor of entity id at start-up
Runs(id) == Cardinality({i \in 1..Len(conf.constructed) : conf.constructed[i] = id})

\* the commands registered by a call of Configuration::command
DirectlyRegistered ==
    {call[2] : call \in {c \in Range(Registrations(variant, prog)) : c[1] = "command"}}

\* C13: a command registered both as a root command and as a subcommand of
\* another registered command is registered exactly once, in either order of
\* the two registrations: its constructor ran once and the registry holds one
\* entity under its identifier.
C13_RegisteredOnce ==
    \A id \in DirectlyRegistered :
        (\E r \in Registered : id \in Cmd(r).subcommands)
            => /\ id \in Registered /\ Cmd(id).id = id
               /\ Runs(id) = 1

----------------------------------------------------------------------------
\* every group the configuration holds: the registered ones and the top-level ones
HeldGroups ==
    {conf.groups.aggregrates[g] : g \in RegisteredGroups} \cup Range(conf.top_level_groups)

\* a name as the registrar binds it under the configuration's case policy
Bound(n) == IF conf.case_insensitive THEN to_lowercase(n) ELSE n

\* C14: after start-up every member command of every group held by the
\* configuration (prefixed or prefixless, subgroups included) is stored in the
\* command registry and each of its names is bound to its identifier.
C14_GroupMembersRegistered ==
    \A g \in HeldGroups : \A id \in g.commands :
        /\ id \in Registered
        /\ \A i \in 1..Len(CommandDecl(prog, id).names) :
               IdMap_get_id(conf.commands, Bound(CommandDecl(prog, id).names[i])) = Some(id)

----------------------------------------------------------------------------
\* C15: nothing in dispatch is fatal: for every message and every
\* configuration built through the registration calls, dispatch returns Ok or
\* an Error value and never panics.
C15_NeverPanics ==
    Settled => /\ res.kind \in {"ok", "user", "err"}
               /\ res.kind = "err" => res.err.tag # ""

----------------------------------------------------------------------------
(* Properties of the concurrent dispatches *)

\* the positions in which a dispatch is past its resolution block
AfterResolution == {"resolved", "handler", "handler_waiting", "handler_used", "done"}

\* C16: the lock on the configuration is held by a dispatch only during its
\* resolution and is released before the handler is invoked: a dispatch whose
\* handler is pending or running holds the lock only while the handler itself
\* took it, so a handler waiting for the lock never waits for its own dispatch.
C16_LockOnlyDuringResolution ==
    \A t \in Dispatchers :
        /\ lock = Some(t) <=> tasks[t].pc \in {"locked", "handler_locked"}
        /\ tasks[t].pc \in AfterResolution \cup {"idle", "waiting"} => lock # Some(t)
        /\ tasks[t].pc = "handler_waiting" =>
               (lock = None \/ \E u \in (Dispatchers \ {t}) \cup {"reg"} : lock = Some(u))

\* a handler is running while another dispatch resolves under the lock
C16_Witness ==
    /\ tasks["d1"].pc = "handler"
    /\ tasks["d2"].pc = "locked"
    /\ lock = Some("d2")

\* C17: two dispatches can be in their resolution phase at the same time: a
\* dispatch that asks for the configuration while another one is resolving
\* gets it; and while the configuration is being changed no dispatch is in
\* its resolution phase.
C17_ReadersShareWritersExclude ==
    /\ \A t \in Dispatchers : \A u \in Dispatchers \ {t} :
           (tasks[t].pc = "locked" /\ tasks[u].pc = "waiting") => ENABLED Lock(u)
    /\ reg.pc = "mutating" => \A t \in Dispatchers : tasks[t].pc # "locked"

----------------------------------------------------------------------------
(* Properties of the segment iterators *)

PlainKinds == {"Segments", "SegmentsChar"}

\* C18: after the plain segmenter returns a segment it has consumed every
\* consecutive delimiter that follows, so no segment after the first is empty
\* (repeated delimiters between two tokens give no empty segment):
\* "abc foo      bar" on " " yields exactly abc, foo, bar and then the end.
C18_DelimiterRunsConsumed ==
    seg.kind \in PlainKinds =>
        /\ seg.out # <<>> => ~starts_with(seg.rest, seg.delimiter)
        /\ \A i \in 2..Len(seg.out) : seg.out[i] # <<>>
        /\ (seg.ended /\ seg.delimiter = <<" ">>
              /\ seg.src = <<"a", "b", "c", " ", "f", "o", "o", " ", " ", " ", " ", " ", " ", "b", "a", "r">>)
               => seg.out = << <<"a", "b", "c">>, <<"f", "o", "o">>, <<"b", "a", "r">> >>

C18_Witness ==
    /\ seg.kind = "Segments" /\ seg.ended /\ seg.delimiter = <<" ">>
    /\ Len(seg.src) = 16
    /\ seg.out = << <<"a", "b", "c">>, <<"f", "o", "o">>, <<"b", "a", "r">> >>

\* the position of the first quote after the leading one, 0 when there is none
ClosingQuote(src) ==
    IF \E k \in 2..Len(src) : src[k] = Quote
    THEN CHOOSE k \in 2..Len(src) : src[k] = Quote /\ \A j \in 2..(k - 1) : src[j] # Quote
    ELSE 0

\* C19: for a source beginning with a quote, the argument segment is the text
\* between that quote and the next quote, or the whole rest of the source when
\* no quote closes it, and then the iteration ends; otherwise it is the plain
\* segment. "a b" c (quoted) yields exactly a b, c; "unterminated yields
\* exactly unterminated.
C19_QuotedArgument ==
    (seg.kind = "ArgumentSegments" /\ seg.out # <<>> /\ ~seg.ended) =>
        LET src == seg.before
            k == ClosingQuote(src)
        IN  /\ (src[1] = Quote /\ k > 0)
                   => /\ Last(seg.out) = SubSeq(src, 2, k - 1)
                      /\ seg.rest = trim_start_matches_str(SubSeq(src, k + 1, Len(src)), seg.delimiter)
            /\ (src[1] = Quote /\ k = 0)
                   => /\ Last(seg.out) = SubSeq(src, 2, Len(src))
                      /\ seg.rest = <<>>
            /\ src[1] # Quote
                   => <<Last(seg.out), seg.rest>> = Unwrap(segment_split_str(src, seg.delimiter))
            /\ (seg.src = <<Quote, "a", " ", "b", Quote, " ", "c">> /\ seg.delimiter = <<" ">>
                  /\ seg.rest = <<>>)
                   => seg.out = << <<"a", " ", "b">>, <<"c">> >>
            /\ seg.src = <<Quote, "u", "n", "t", "e", "r", "m", "i", "n", "a", "t", "e", "d">>
                   => (seg.out = << <<"u", "n", "t", "e", "r", "m", "i", "n", "a", "t", "e", "d">> >>
                         /\ seg.rest = <<>>)

C19_Witness ==
    /\ seg.kind = "ArgumentSegments" /\ seg.ended /\ seg.delimiter = <<" ">>
    /\ seg.src = <<Quote, "a", " ", "b", Quote, " ", "c">>
    /\ seg.out = << <<"a", " ", "b">>, <<"c">> >>

----------------------------------------------------------------------------
\* the segment names, under the case policy, a group or a command that the
\* resolution accepted
NamesAccepted(sgm) ==
    \/ /\ IsSome(IdMap_get_id(conf.groups, Bound(sgm)))
       /\ Unwrap(IdMap_get_id(conf.groups, Bound(sgm))) \in Range(res.groups)
    \/ /\ IsSome(IdMap_get_id(conf.commands, Bound(sgm)))
       /\ Unwrap(IdMap_get_id(conf.commands, Bound(sgm))) \in Range(res.chain)

\* C20: for every message the resolver accepts, the residual text is a
\* verbatim suffix of the text after the prefix (in the letter case of the
\* message, also under the case-insensitive policy), and it is what is left
\* of that text after the consumed segments, which name the accepted groups
\* and commands, and the delimiter runs after them.
C20_ResidualVerbatim ==
    (Settled /\ Resolved) =>
        /\ res.prefix = StaticPrefix /\ starts_with(msg.content, StaticPrefix)
        /\ \E j \in 1..(Len(Body) + 1) : res.args = SubSeq(Body, j, Len(Body))
        /\ \E k \in 0..(Len(res.groups) + Len(res.chain)) :
               /\ res.args = AfterSegments(Body, k)
               /\ \A i \in 1..k :
                      Segment(Body, i) # None /\ NamesAccepted(Unwrap(Segment(Body, i)))

C20_Witness ==
    /\ pc = "done" /\ conf.case_insensitive
    /\ msg.content = StaticPrefix \o <<"p", " ", "Q">>
    /\ res.kind = "ok" /\ res.chain = <<"ping">> /\ res.args = <<"Q">>

----------------------------------------------------------------------------
(* Properties of argument binding *)

\* the last call on the iterator was a binding (every call shortens the source
\* or ends the iterator, and none follows its end)
Binding == fin.op \in {"required", "optional"} /\ seg.before = fin.text

BoundSplit == argument_segment_split(fin.text, fin.id)

\* C21: required and optional binding differ only on exhausted input: with no
\* segment left the required one fails with Missing and the optional one
\* succeeds without a value; with a segment present both consume exactly that
\* segment and give the converted value, or the Argument error wrapping the
\* conversion's own error, which is never Missing.
C21_RequiredOptionalBinding ==
    Binding =>
        /\ fin.text = <<>> =>
               /\ fin.op = "required" => fin.r = <<"missing", <<>>, <<>>>>
               /\ fin.op = "optional" => fin.r = <<"ok", None, <<>>>>
               /\ seg.rest = <<>> /\ seg.ended
        /\ fin.text # <<>> =>
               /\ seg.rest = Unwrap(BoundSplit)[2]
               /\ seg.out # <<>> /\ Last(seg.out) = Unwrap(BoundSplit)[1]
               /\ fin.r[1] \in {"ok", "argument"}
               /\ fin.r[1] = "ok" <=> from_str(Unwrap(BoundSplit)[1])[1] = "ok"
               /\ fin.r[1] = "ok" =>
                      /\ fin.op = "required" => fin.r[2] = from_str(Unwrap(BoundSplit)[1])[2]
                      /\ fin.op = "optional" => fin.r[2] = Some(from_str(Unwrap(BoundSplit)[1])[2])
               /\ fin.r[1] = "argument" => fin.r[3] = from_str(Unwrap(BoundSplit)[1])[3]

\* an optional binding on an exhausted source
C21_Witness ==
    /\ fin.op = "optional" /\ fin.text = <<>> /\ seg.src # <<>>
    /\ fin.r = <<"ok", None, <<>>>>

----------------------------------------------------------------------------
(* Properties of the parameter-list check *)

\* args is Required*, then Optional*, then at most one Variadic or Rest
WellFormed(args) ==
    \E i \in 0..Len(args) : \E j \in i..Len(args) :
        /\ \A k \in 1..i : args[k] = "Required"
        /\ \A k \in (i + 1)..j : args[k] = "Optional"
        /\ Len(args) - j <= 1
        /\ \A k \in (j + 1)..Len(args) : args[k] \in {"Variadic", "Rest"}

\* C22: the parameter-list check accepts exactly the lists made of required
\* parameters, then optional ones, then at most one variadic or one rest
\* parameter, and rejects every other list, also when the two offending
\* parameters are not next to each other.
C22_AcceptsExactlyWellFormed ==
    fin.op = "check_arguments" => (fin.r[1] = "ok" <=> WellFormed(fin.text))

\* an optional parameter before a required one, a variadic one between them
C22_Witness ==
    /\ fin.op = "check_arguments"
    /\ fin.text = <<"Optional", "Variadic", "Required">>
    /\ fin.r[1] = "err"

----------------------------------------------------------------------------
(* Properties of registration *)

\* the names of a command as they are bound under the configuration's policy
BoundNames(c, id) ==
    {IF c.case_insensitive THEN to_lowercase(CommandDecl(prog, id).names[i])
                           ELSE CommandDecl(prog, id).names[i] :
         i \in DOMAIN CommandDecl(prog, id).names}

\* this step ran the constructor of a command and bound its names
Entering == Len(conf'.constructed) = Len(conf.constructed) + 1

\* C23: when a name bound to command a is registered for another command b,
\* insert_name returns a, the name resolves to b afterwards, and a is stored
\* and reachable by its identifier and its other names as before.
C23_LastRegistrationWins ==
    [][Entering =>
         \A a \in CommandIds \ {Last(conf'.constructed)} :
             \A n \in BoundNames(conf, Last(conf'.constructed)) :
                 IdMap_get_id(conf.commands, n) = Some(a) =>
                     /\ IdMap_insert_name_returned(conf.commands, n, Last(conf'.constructed)) = Some(a)
                     /\ IdMap_get_id(conf'.commands, n) = Some(Last(conf'.constructed))
                     /\ IdMap_get(conf'.commands, a) = IdMap_get(conf.commands, a)
                     /\ \A m \in BoundNames(conf, a) \ BoundNames(conf, Last(conf'.constructed)) :
                            IdMap_get_id(conf'.commands, m) = IdMap_get_id(conf.commands, m)]_vars

\* ping, then deflt with ping's name p: p resolves to deflt, ping is stored
\* and Q still resolves to it
C23_Witness ==
    /\ prog = "J" /\ stack = <<>> /\ ~conf.case_insensitive
    /\ fin.op = "returned" /\ fin.id = <<"deflt">>
    /\ IdMap_get_id(conf.commands, <<"p">>) = Some("deflt")
    /\ IdMap_get_id(conf.commands, <<"Q">>) = Some("ping")
    /\ IsSome(IdMap_get(conf.commands, "ping"))
    /\ IdMap_get(conf.commands, "ping")[1].id = "ping"

\* the commands reached from the commands of S along n or fewer subcommand edges
RECURSIVE Descendants(_, _)
Descendants(S, n) ==
    IF n = 0
    THEN S
    ELSE Descendants(S \cup UNION {CommandDecl(prog, x).subcommands : x \in S}, n - 1)

\* x is a subcommand, at some depth, of itself
OnCycle(x) == x \in Descendants(CommandDecl(prog, x).subcommands, Cardinality(CommandIds))

\* the subcommand graph below id contains a cycle
ReachesCycle(id) == \E x \in Descendants({id}, Cardinality(CommandIds)) : OnCycle(x)

\* C26: a registration call for a command whose subcommand graph contains a
\* cycle never returns, whatever the guards: the calls that return are for
\* commands with an acyclic graph, and while such a call is in progress the
\* call stack never empties.
C26_CyclicRegistrationNeverReturns ==
    /\ fin.op = "returned" => ~ReachesCycle(fin.id[1])
    /\ (\E i \in DOMAIN conf.constructed : ReachesCycle(conf.constructed[i])) => stack # <<>>

\* with ping and sub each other's subcommand, the guarded implementation is
\* at its fourth nested call, each command entered twice
C26_Witness ==
    /\ variant = "fw" /\ prog = "K"
    /\ Len(stack) = MaxDepth
    /\ \E i, j \in DOMAIN stack : i < j /\ stack[i].id = stack[j].id
    /\ fin.op = "entered"

----------------------------------------------------------------------------
(* Properties of the initial command *)

Grp(id) == conf.groups.aggregrates[id]

\* the message is the prefix, a prefix of group g, and a name bound to command c
NamesGroupThenCommand(g, c) ==
    \E k \in Range(Grp(g).prefixes) : \E n \in Tokens :
        /\ IdMap_get_id(conf.groups, k) = Some(g)
        /\ IdMap_get_id(conf.commands, n) = Some(c)
        /\ IdMap_get_id(conf.groups, n) = None
        /\ msg.content = StaticPrefix \o k \o <<" ">> \o n

\* the default command of group g, if it declares one, is stored
DefaultStored(g) ==
    IsSome(Grp(g).default_command) => Unwrap(Grp(g).default_command) \in Registered

\* the words after group g stand for its default command rather than for c
DefaultPreferred(g, c) ==
    /\ IsSome(Grp(g).default_command)
    /\ c \in Cmd(Unwrap(Grp(g).default_command)).subcommands

----------------------------------------------------------------------------
(* Properties of the group descent *)

\* the segment the iterator is at names a registered group that is not a
\* declared subgroup of the group matched before it
AtForeignGroup ==
    /\ fin.op = "groups" /\ IsSome(fin.id)
    /\ IsSome(Segments_current(fin.text, conf.case_insensitive))
    /\ IsSome(IdMap_get_id(conf.groups, Unwrap(Segments_current(fin.text, conf.case_insensitive))))
    /\ Unwrap(IdMap_get_id(conf.groups, Unwrap(Segments_current(fin.text, conf.case_insensitive))))
           \notin Grp(Unwrap(fin.id)).subgroups

----------------------------------------------------------------------------
(* Properties of the resolved chain *)

\* C27: in every successful dispatch of the group-less implementation the
\* chain of accepted commands is valid: the first is a root-level command,
\* each later one is a declared subcommand of the one before it, and the
\* handler invoked is that of the last command of the chain.
C27_ChainValid ==
    (variant = "fw" /\ Settled /\ Resolved) =>
        /\ res.chain # <<>>
        /\ res.chain[1] \in conf.root_level_commands
        /\ \A i \in 2..Len(res.chain) :
               /\ res.chain[i - 1] \in Registered
               /\ res.chain[i] \in Cmd(res.chain[i - 1]).subcommands
        /\ Last(res.chain) \in Registered
        /\ \A i \in Handlers : log[i][2] = Last(res.chain)
        /\ Cardinality(Handlers) <= 1
        /\ pc = "done" => Cardinality(Handlers) = 1

\* ping then its subcommand sub: the handler of sub has run
C27_Witness ==
    /\ variant = "fw" /\ pc = "done" /\ Resolved
    /\ res.chain = <<"ping", "sub">>
    /\ \E i \in Handlers : log[i][2] = "sub"

----------------------------------------------------------------------------
(* Properties of the length of the walk *)

\* the number of segments of a text: its runs of characters other than the
\* delimiter, and the empty segment before a leading delimiter
SegmentCount(src) ==
    Cardinality({i \in 1..Len(src) : src[i] # " " /\ (i = 1 \/ src[i - 1] = " ")})
        + (IF src # <<>> /\ src[1] = " " THEN 1 ELSE 0)

\* the text after the prefix, empty when the message does not start with it
AfterPrefix ==
    IF starts_with(msg.content, StaticPrefix)
    THEN SubSeq(msg.content, Len(StaticPrefix) + 1, Len(msg.content))
    ELSE <<>>

\* the groups and commands accepted by the walk
Accepted == Len(res.groups) + Len(res.chain)

\* the first command accepted is the default command of the last group matched
DefaultTaken ==
    /\ res.groups # <<>> /\ res.chain # <<>>
    /\ Last(res.groups) \in RegisteredGroups
    /\ Grp(Last(res.groups)).default_command = Some(res.chain[1])

\* the longest list of checks a stored group or command declares
MostChecks ==
    LET lens == {Len(Cmd(c).checks) : c \in Registered}
                    \cup {Len(Grp(g).checks) : g \in RegisteredGroups} \cup {0}
    IN  CHOOSE m \in lens : \A k \in lens : k <= m

\* C28 as stated: for a message of n segments after the prefix, at most n
\* groups and commands are accepted before dispatch returns or invokes the
\* handler.
C28_AcceptedWithinSegments ==
    Settled => Accepted <= SegmentCount(AfterPrefix)

\* C28 as amended: every accepted group or command consumes one segment,
\* except a group's default command, which is accepted without one; so at
\* most n entities are accepted, n + 1 with a default command, and the checks
\* evaluated are those of at most n + 1 entities.
C28_AcceptedWithinSegmentsOrDefault ==
    Settled =>
        /\ Accepted <= SegmentCount(AfterPrefix) + (IF DefaultTaken THEN 1 ELSE 0)
        /\ NumChecks(log) <= MostChecks * (SegmentCount(AfterPrefix) + 1)

\* a group alone: the group and its default command are accepted on one segment
C28_Witness ==
    /\ Settled /\ Resolved /\ msg.content = StaticPrefix \o <<"g">>
    /\ res.groups = <<"grp">> /\ res.chain = <<"deflt">>

----------------------------------------------------------------------------
(* Properties of the text after a static prefix *)

\* the message is the static prefix, a delimiter, and more text
DelimiterAfterPrefix ==
    /\ Len(msg.content) > Len(StaticPrefix) + 1
    /\ starts_with(msg.content, StaticPrefix \o <<" ">>)

\* C29: nothing beyond the static prefix's own length is trimmed: a message
\* with a delimiter between the prefix and the command name has the empty
\* string as its first segment, and dispatch fails with InvalidCommandName
\* carrying the empty name; no command is accepted and no check evaluated.
C29_DelimiterAfterPrefixIsEmptyName ==
    (variant = "fw" /\ Settled /\ DelimiterAfterPrefix) =>
        /\ res.kind = "err"
        /\ res.err.tag = "InvalidCommandName" /\ res.err.text = <<>>
        /\ res.chain = <<>> /\ NumChecks(log) = 0 /\ Handlers = {}

\* "! p", where p names the root-level command ping
C29_Witness ==
    /\ variant = "fw" /\ Settled /\ msg.content = StaticPrefix \o <<" ", "p">>
    /\ IdMap_get_id(conf.commands, <<"p">>) = Some("ping") /\ "ping" \in conf.root_level_commands
    /\ res.err.tag = "InvalidCommandName" /\ res.err.text = <<>>

----------------------------------------------------------------------------
(* Properties of the registries *)

\* the identifiers a group refers to are stored: its member commands and its
\* default command in the command registry
GroupReferencesStored(group) ==
    /\ group.commands \subseteq Registered
    /\ group.subgroups \subseteq RegisteredGroups
    /\ IsSome(group.default_command) => Unwrap(group.default_command) \in Registered

\* C30: after the registrations of a program every identifier a stored or
\* top-level entity refers to (subcommands, member commands, subgroups,
\* default command) has a stored entity in its registry, and resolution never
\* indexes a registry with a missing identifier.
C30_ReferencesStored ==
    HasGroups(variant) =>
        /\ \A c \in Registered : Cmd(c).subcommands \subseteq Registered
        /\ \A g \in RegisteredGroups : GroupReferencesStored(Grp(g))
        /\ \A i \in 1..Len(conf.top_level_groups) : GroupReferencesStored(conf.top_level_groups[i])
        /\ res.kind # "panic"

====
